---- MODULE Spec2Model ----
(***************************************************************************)
(* Model of the feature-engineering pipeline of preprocessing.py: the      *)
(* canonical key vocabulary, the text / struct / diff views, the stable    *)
(* string hash, the label derivation and the record written to train.pkl;  *)
(* of train.py, which fits the three-expert classifier on that record and  *)
(* writes model_artifacts.pkl; and of export_model.py, which turns the     *)
(* artifacts into model_data.json.                                         *)
(*                                                                         *)
(* Strings are sequences of Unicode code points (Python iterates a str by  *)
(* code point, and ord() gives the code point).  Python integers are       *)
(* unbounded; the values of stable_hash that pass 2^31 - 1 are kept as two *)
(* 16-bit limbs <<hi, lo>> standing for hi * 2^16 + lo.                    *)
(***************************************************************************)
EXTENDS Integers, Sequences, FiniteSets

VARIABLES
    \* ---- preprocessing.py, module-level state
    samples,        \* raw["samples"]
    v_map,          \* vendor_field_map.json ({} when the file is absent)
    pc,             \* position of the script
    i,              \* number of samples the main loop has processed
    sorted_keys,    \* the canonical key vocabulary
    texts,
    structs,
    diffs,
    labels,
    max_len,
    vocabulary,     \* the fitted TfidfVectorizer's terms, in column order
    label_to_idx,
    train_pkl,      \* the record pickled to train.pkl, NoFile before
    err,            \* the exception that ended the script, "none" if none
    \* ---- a single call of stable_hash and of the bucket expression
    h_in,           \* the argument string
    h_pc,
    h_out,          \* stable_hash(h_in)
    h_bucket,       \* abs(stable_hash(h_in)) % diff_len
    \* ---- train.py
    model,          \* the shapes of the parameters of MultiheadModel, << >> before
    epoch,          \* number of epochs completed
    order,          \* the sample indices the shuffled loader yields this epoch
    num_batches,    \* batches of this epoch already stepped
    steps,          \* optimizer.step() calls so far
    training_losses,
    model_artifacts,\* the record pickled to model_artifacts.pkl, NoFile before
    \* ---- export_model.py
    model_data,     \* the object dumped to model_data.json, NoFile before
    \* ---- the working directory preprocessing.py starts in
    disk,           \* the two corpus files, << >> once the corpus is loaded
    \* ---- fixed_tray_app.py
    events,         \* the requests POSTed to /data, each with the seconds
                    \* elapsed since the one before
    served,         \* number of requests do_POST has answered
    now,            \* datetime.now(), in seconds
    stats,          \* TrayApp.stats
    recent_detections,
    duplicate_window,
    notifications,  \* the show_notification calls so far
    last            \* what the handling of the last request did

pvars == <<samples, v_map, pc, i, sorted_keys, texts, structs, diffs, labels,
           max_len, vocabulary, label_to_idx, train_pkl, err>>
hvars == <<h_in, h_pc, h_out, h_bucket>>
tvars == <<model, epoch, order, num_batches, steps, training_losses, model_artifacts,
           model_data>>
fvars == <<disk>>
avars == <<events, served, now, stats, recent_detections, duplicate_window,
           notifications, last>>
vars == <<pvars, hvars, tvars, fvars, avars>>

----------------------------------------------------------------------------
(* Bounds of the model *)

\* longest argument string of a single stable_hash call
MaxLen == 4
\* most samples in a corpus built from SmallSamples
MaxSamples == 2
\* most keys of an after map of the one-sample corpora
MaxAfter == 2
\* most entries of a changes list of the one-sample corpora
MaxChanges == 2

----------------------------------------------------------------------------
(* Strings *)

\* 'C', 's', U+013B (hash 315: same bucket as 's'), U+C1963
HashChars == {67, 115, 315, 792931}

RECURSIVE StringsUpTo(_)
StringsUpTo(n) ==
    IF n = 0 THEN {<< >>}
    ELSE LET shorter == StringsUpTo(n - 1)
         IN  shorter \cup {Append(s, c) : s \in {t \in shorter : Len(t) = n - 1},
                                          c \in HashChars}

\* "\U000C1963sCs": the string whose hash is the most negative 32-bit value
MinIntName == <<792931, 115, 67, 115>>

----------------------------------------------------------------------------
(* stable_hash, preprocessing.py lines 43-51 *)

\* 2^16, the weight of the high limb
Limb == 256 * 256

\* (h << 5) on limbs, not yet normalised
Shl5(h) == <<h[1] * 32, h[2] * 32>>

\* h &= 0xFFFFFFFF on a pair of unnormalised limbs: carry lo into hi, drop
\* what passes 32 bits
Mask32(w) == <<(w[1] + (w[2] \div Limb)) % Limb, w[2] % Limb>>

\* one pass of the for loop: h = ((h << 5) - h) + ord(char); h &= 0xFFFFFFFF
HashStepNoMask(h, c) ==
    LET sh == Shl5(h)
    IN  <<(sh[1] - h[1]) + (c \div Limb), (sh[2] - h[2]) + (c % Limb)>>

HashStepShl4(h, c) ==
    Mask32(<<(h[1] * 16 - h[1]) + (c \div Limb), (h[2] * 16 - h[2]) + (c % Limb)>>)

HashStep(h, c) == Mask32(HashStepNoMask(h, c))

RECURSIVE HashLoop(_, _)
HashLoop(s, h) ==
    IF s = << >> THEN h ELSE HashLoop(Tail(s), HashStep(h, Head(s)))

\* if h > 0x7FFFFFFF: h -= 0x100000000
ToSigned(h) ==
    IF h[1] >= 32768 THEN (h[1] - Limb) * Limb + h[2] ELSE h[1] * Limb + h[2]

stable_hash(s) == ToSigned(HashLoop(s, <<0, 0>>))

\* abs(n) of a signed 32-bit n, as limbs (abs(-2^31) = 2^31 passes 2^31 - 1)
PyAbs(n) ==
    IF n >= 0 THEN <<n \div Limb, n % Limb>>
    ELSE LET q == n \div Limb
             r == n % Limb
         IN  IF r = 0 THEN <<-q, 0>> ELSE <<-q - 1, Limb - r>>

\* w % m for a non-negative w given as limbs and 0 < m < 2^15
PyMod(w, m) == (((w[1] % m) * (Limb % m)) + w[2]) % m

diff_len == 200

\* h = abs(stable_hash(field_name)) % diff_len; idx := h % diff_len
BucketTruncated(field_name) ==
    LET n == stable_hash(field_name)
    IN  IF n < 0 THEN -PyMod(PyAbs(n), diff_len) ELSE PyMod(PyAbs(n), diff_len)

Bucket(field_name) ==
    PyMod(PyAbs(stable_hash(field_name)), diff_len) % diff_len

----------------------------------------------------------------------------
(* JSON values as Python sees them after json.loads *)

JNull == [t |-> "null", n |-> 0, s |-> << >>, items |-> << >>]
JBool(b) == [t |-> "bool", n |-> IF b THEN 1 ELSE 0, s |-> << >>, items |-> << >>]
JNum(k) == [t |-> "num", n |-> k, s |-> << >>, items |-> << >>]
JStr(str) == [t |-> "str", n |-> 0, s |-> str, items |-> << >>]
JList(xs) == [t |-> "list", n |-> 0, s |-> << >>, items |-> xs]
\* the empty mapping {}
JEmptyDict == [t |-> "dict", n |-> 0, s |-> << >>, items |-> << >>]

\* Python's ==: bool is a subclass of int, so False == 0 and True == 1
PyEq(a, b) ==
    IF a.t \in {"bool", "num"} /\ b.t \in {"bool", "num"} THEN a.n = b.n ELSE a = b

\* Python's truth value
Truthy(v) ==
    CASE v.t = "null" -> FALSE
      [] v.t \in {"bool", "num"} -> v.n # 0
      [] v.t = "str" -> v.s # << >>
      [] v.t = "list" -> v.items # << >>
      [] OTHER -> FALSE

\* decimal digits of a natural number
RECURSIVE Digits(_)
Digits(k) == IF k < 10 THEN <<48 + k>> ELSE Append(Digits(k \div 10), 48 + (k % 10))

\* str(v) for a value that is not a list
PyStr(v) ==
    CASE v.t = "null" -> <<78, 111, 110, 101>>                        \* None
      [] v.t = "bool" -> IF v.n = 1 THEN <<84, 114, 117, 101>>        \* True
                         ELSE <<70, 97, 108, 115, 101>>               \* False
      [] v.t = "num" -> IF v.n < 0 THEN <<45>> \o Digits(-v.n) ELSE Digits(v.n)
      [] v.t = "str" -> v.s
      [] OTHER -> <<123, 125>>                                        \* {}

(* A Python dict: the sequence of its <<key, value>> items in insertion    *)
(* order, keys distinct.                                                   *)
DictKeys(d) == {d[j][1] : j \in 1..Len(d)}
HasKey(d, k) == k \in DictKeys(d)
\* d[k] for a key of d
Item(d, k) == d[CHOOSE j \in 1..Len(d) : d[j][1] = k][2]
\* d.get(k): None when k is missing
Get(d, k) == IF HasKey(d, k) THEN Item(d, k) ELSE JNull
DictValues(d) == {d[j][2] : j \in 1..Len(d)}

----------------------------------------------------------------------------
(* Lexicographic order of strings by code point, and sorted() *)

RECURSIVE StrLess(_, _)
StrLess(a, b) ==
    IF b = << >> THEN FALSE
    ELSE IF a = << >> THEN TRUE
    ELSE IF Head(a) # Head(b) THEN Head(a) < Head(b)
    ELSE StrLess(Tail(a), Tail(b))

RECURSIVE SortedReversed(_)
SortedReversed(S) ==
    IF S = {} THEN << >>
    ELSE LET m == CHOOSE x \in S : \A y \in S \ {x} : StrLess(y, x)
         IN  <<m>> \o SortedReversed(S \ {m})

\* sorted(list(S)) for a set S of strings
RECURSIVE Sorted(_)
Sorted(S) ==
    IF S = {} THEN << >>
    ELSE LET m == CHOOSE x \in S : \A y \in S \ {x} : StrLess(x, y)
         IN  <<m>> \o Sorted(S \ {m})

----------------------------------------------------------------------------
(* Samples.  A sample is a record                                          *)
(*   has_data    "data" in s                                               *)
(*   after_kind  "absent": no "after" in s["data"]; "map": a mapping;      *)
(*               "null": "after" is present with the value null            *)
(*   after       the mapping s["data"]["after"] (<< >> unless "map")       *)
(*   has_before, before   likewise for s["data"]["before"]                 *)
(*   changes     s.get("changes", []): entries [has_field, field]          *)
(*   metadata    s.get("metadata", {}): optional object_type, operation,   *)
(*               vendor                                                    *)

\* s.get("data", {}).get("after", {})
data_after(s) == IF s.has_data /\ s.after_kind = "map" THEN s.after ELSE << >>

\* s.get("data", {}).get("before", {})
data_before(s) == IF s.has_data /\ s.has_before THEN s.before ELSE << >>

\* c.get("field", "")
field_name(c) == IF c.has_field THEN c.field ELSE << >>

----------------------------------------------------------------------------
(* sorted_keys, preprocessing.py lines 36-40 *)

KeysRaiseOnMissing(ss) ==
    \E j \in 1..Len(ss) : ~ss[j].has_data \/ ss[j].after_kind # "map"

\* the loop raises AttributeError at the first sample whose "after" is null
\* (None has no keys()); a sample without "data" or "after" is passed over
KeysRaise(ss) == \E j \in 1..Len(ss) : ss[j].has_data /\ ss[j].after_kind = "null"

all_keys(ss) ==
    UNION {DictKeys(ss[j].after) :
              j \in {m \in 1..Len(ss) : ss[m].has_data /\ ss[m].after_kind = "map"}}

----------------------------------------------------------------------------
(* 1. text features, lines 59-68 *)

\* t.extend(map(str, v))
RECURSIVE MapStr(_)
MapStr(xs) == IF xs = << >> THEN << >> ELSE <<PyStr(Head(xs))>> \o MapStr(Tail(xs))

\* the tokens one key appends to t
KeyTokensSkipEmpty(d, k) ==
    IF Truthy(Get(d, k))
    THEN LET v == Item(d, k)
         IN  <<k>> \o (IF v.t = "list" THEN MapStr(v.items) ELSE <<PyStr(v)>>)
    ELSE << >>

KeyTokens(d, k) ==
    IF HasKey(d, k)
    THEN LET v == Item(d, k)
         IN  <<k>> \o (IF v.t = "list" THEN MapStr(v.items) ELSE <<PyStr(v)>>)
    ELSE << >>

RECURSIVE TextTokens(_, _)
TextTokens(d, keys) ==
    IF keys = << >> THEN << >>
    ELSE KeyTokens(d, Head(keys)) \o TextTokens(d, Tail(keys))

\* " ".join(t)
RECURSIVE Join(_)
Join(toks) ==
    IF toks = << >> THEN << >>
    ELSE IF Len(toks) = 1 THEN toks[1]
    ELSE toks[1] \o <<32>> \o Join(Tail(toks))

\* the keys of d in insertion order
RECURSIVE KeyList(_)
KeyList(d) == IF d = << >> THEN << >> ELSE <<d[1][1]>> \o KeyList(Tail(d))

TextViewInsertionOrder(s, keys) == Join(TextTokens(data_after(s), KeyList(data_after(s))))

TextView(s, keys) == Join(TextTokens(data_after(s), keys))

----------------------------------------------------------------------------
(* 2. struct features, lines 71-76 *)

\* val in (None, False, [], "")
InEmptyTuple(val) ==
    \E x \in {JNull, JBool(FALSE), JList(<< >>), JStr(<< >>)} : PyEq(val, x)

StructBit(d, k) == IF InEmptyTuple(Get(d, k)) THEN 0 ELSE 1

RECURSIVE StructLoopPresentOnly(_, _)
StructLoopPresentOnly(d, keys) ==
    IF keys = << >> THEN << >>
    ELSE (IF HasKey(d, Head(keys)) THEN <<StructBit(d, Head(keys))>> ELSE << >>)
         \o StructLoopPresentOnly(d, Tail(keys))

RECURSIVE StructLoop(_, _)
StructLoop(d, keys) ==
    IF keys = << >> THEN << >>
    ELSE <<StructBit(d, Head(keys))>> \o StructLoop(d, Tail(keys))

StructView(s, keys) == StructLoop(data_after(s), keys)

----------------------------------------------------------------------------
(* 3. diff features, lines 79-86 *)

\* bit[idx] = 1 (idx counts from 0, the sequence from 1)
SetBitCounting(bit, idx) == [bit EXCEPT ![idx + 1] = @ + 1]

SetBit(bit, idx) == [bit EXCEPT ![idx + 1] = 1]

\* the body of the for loop over changes
DiffStepEveryEntry(bit, c) == SetBit(bit, Bucket(field_name(c)))

DiffStep(bit, c) ==
    IF field_name(c) # << >> THEN SetBit(bit, Bucket(field_name(c))) ELSE bit

RECURSIVE DiffLoop(_, _)
DiffLoop(bit, changes) ==
    IF changes = << >> THEN bit
    ELSE DiffLoop(DiffStep(bit, Head(changes)), Tail(changes))

DiffView(s) == DiffLoop([b \in 1..diff_len |-> 0], s.changes)

----------------------------------------------------------------------------
(* 4. labels, lines 89-107 *)

\* str.upper() on the ASCII letters (the object types and operations of the
\* model are ASCII)
RECURSIVE Upper(_)
Upper(str) ==
    IF str = << >> THEN << >>
    ELSE <<IF Head(str) \in 97..122 THEN Head(str) - 32 ELSE Head(str)>> \o Upper(Tail(str))

StrUnknown == <<117, 110, 107, 110, 111, 119, 110>>
StrFortigate == <<102, 111, 114, 116, 105, 103, 97, 116, 101>>
StrAddress == <<97, 100, 100, 114, 101, 115, 115>>
StrCREATE == <<67, 82, 69, 65, 84, 69>>
StrEDIT == <<69, 68, 73, 84>>

obj_typeNoUpper(md) == IF md.has_object_type THEN md.object_type ELSE StrUnknown

\* metadata.get("object_type", "unknown").upper()
obj_type(md) == Upper(IF md.has_object_type THEN md.object_type ELSE StrUnknown)

\* v_map.get(vendor, {}).get(metadata.get("object_type", ""), {}).get("identity_field")
\* (<< >> stands for None; v_map is a set of [vendor, object_type, identity_field])
identity_field(vm, md) ==
    LET vendor == IF md.has_vendor THEN md.vendor ELSE StrFortigate
        ot == IF md.has_object_type THEN md.object_type ELSE << >>
        hits == {e \in vm : e.vendor = vendor /\ e.object_type = ot}
    IN  IF hits = {} THEN << >> ELSE (CHOOSE e \in hits : TRUE).identity_field

is_createGenericOnly(vm, s) ==
    LET before == data_before(s)
    IN  before = << >> \/ \A v \in DictValues(before) : InEmptyTuple(v)

\* lines 99-103
is_create(vm, s) ==
    LET idf == identity_field(vm, s.metadata)
        before == data_before(s)
    IN  IF idf # << >> /\ HasKey(before, idf)
        THEN ~Truthy(Item(before, idf))
        ELSE before = << >> \/ \A v \in DictValues(before) : InEmptyTuple(v)

operationInferred(vm, s) == IF is_create(vm, s) THEN StrCREATE ELSE StrEDIT

\* the operation of the label: metadata's when it is truthy, else inferred
operation(vm, s) ==
    IF s.metadata.has_operation /\ s.metadata.operation # << >>
    THEN s.metadata.operation
    ELSE IF is_create(vm, s) THEN StrCREATE ELSE StrEDIT

\* f"{obj_type} {operation.upper()}"
Label(vm, s) == obj_type(s.metadata) \o <<32>> \o Upper(operation(vm, s))

----------------------------------------------------------------------------
(* struct padding, lines 110-115 *)

SeqMax(lens) == CHOOSE m \in lens : \A x \in lens : x <= m

MaxStructLen(ss) == IF ss = << >> THEN 0 ELSE SeqMax({Len(ss[j]) : j \in 1..Len(ss)})

Padded(ss) ==
    LET m == MaxStructLen(ss)
    IN  [j \in 1..Len(ss) |->
            IF Len(ss[j]) < m THEN ss[j] \o [x \in 1..(m - Len(ss[j])) |-> 0] ELSE ss[j]]

----------------------------------------------------------------------------
(* 5. TfidfVectorizer(max_features=2000, min_df=1).fit, lines 119-120:     *)
(* lower-cases each text and takes as terms the maximal runs of two or     *)
(* more word characters; the fitted terms are kept in sorted order and an  *)
(* empty vocabulary makes fit_transform raise ValueError.  The corpora of  *)
(* the model never come near max_features distinct terms.                  *)

IsWordChar(c) == c \in 48..57 \/ c \in 65..90 \/ c \in 97..122 \/ c = 95

Lower(c) == IF c \in 65..90 THEN c + 32 ELSE c

\* terms of str, given the run of word characters read so far
RECURSIVE Terms(_, _)
Terms(str, run) ==
    IF str = << >> THEN (IF Len(run) >= 2 THEN {run} ELSE {})
    ELSE IF IsWordChar(Head(str)) THEN Terms(Tail(str), Append(run, Lower(Head(str))))
    ELSE (IF Len(run) >= 2 THEN {run} ELSE {}) \cup Terms(Tail(str), << >>)

FitVocabulary(txts) == Sorted(UNION {Terms(txts[j], << >>) : j \in 1..Len(txts)})

\* vectorizer.vocabulary_: term -> column index
VocabularyDict(vocab) ==
    [t \in {vocab[j] : j \in 1..Len(vocab)} |->
        (CHOOSE j \in 1..Len(vocab) : vocab[j] = t) - 1]

\* the number of texts a term occurs in
DocFreq(txts, t) == Cardinality({j \in 1..Len(txts) : t \in Terms(txts[j], << >>)})

\* vectorizer.idf_: one weight per column, ln((1 + n) / (1 + df)) + 1, kept
\* as the pair <<n, df>> it is computed from
Idf(txts, vocab) == [j \in 1..Len(vocab) |-> <<Len(txts), DocFreq(txts, vocab[j])>>]

\* tfidf_vectors.shape: one row per text, one column per term
TfidfShape(txts, vocab) == <<Len(txts), Len(vocab)>>

----------------------------------------------------------------------------
(* 6. label encoding, lines 123-124 *)

unique_labels(lbls) == Sorted({lbls[j] : j \in 1..Len(lbls)})

LabelToIdxNoSet(lbls) ==
    [l \in {lbls[j] : j \in 1..Len(lbls)} |->
        Cardinality({j \in 1..Len(lbls) : lbls[j] = l \/ StrLess(lbls[j], l)}) - 1]

\* {label: i for i, label in enumerate(unique_labels)}
LabelToIdx(lbls) ==
    LET u == unique_labels(lbls)
    IN  [l \in {u[j] : j \in 1..Len(u)} |-> (CHOOSE j \in 1..Len(u) : u[j] = l) - 1]

----------------------------------------------------------------------------
(* The inputs the model draws from *)

Sample(hd, ak, after, hb, before, changes, md) ==
    [has_data |-> hd, after_kind |-> ak, after |-> after, has_before |-> hb,
     before |-> before, changes |-> changes, metadata |-> md]

Meta(hot, ot, hop, op, hv, v) ==
    [has_object_type |-> hot, object_type |-> ot, has_operation |-> hop,
     operation |-> op, has_vendor |-> hv, vendor |-> v]

Chg(f) == [has_field |-> TRUE, field |-> f]

\* {"object_type": "address"}
MetaAddress == Meta(TRUE, StrAddress, FALSE, << >>, FALSE, << >>)

\* field names "C", "s", "sC"
AfterKeys == {<<67>>, <<115>>, <<115, 67>>}

AfterValues ==
    {JNull, JBool(FALSE), JBool(TRUE), JNum(0), JNum(7), JStr(<< >>), JStr(<<115>>),
     JList(<< >>), JList(<<JStr(<<67>>), JNum(0)>>), JEmptyDict}

\* the dicts of at most n items over AfterKeys and AfterValues, in every
\* insertion order
RECURSIVE DictsUpTo(_)
DictsUpTo(n) ==
    IF n = 0 THEN {<< >>}
    ELSE LET shorter == DictsUpTo(n - 1)
         IN  shorter \cup
             UNION {{Append(d, <<k, v>>) : k \in AfterKeys \ DictKeys(d), v \in AfterValues} :
                       d \in {x \in shorter : Len(x) = n - 1}}

\* an entry without "field", and entries named "", "s", U+013B, "C" and MinIntName
ChangeEntries ==
    {[has_field |-> FALSE, field |-> << >>]}
    \cup {Chg(f) : f \in {<< >>, <<115>>, <<315>>, <<67>>, MinIntName}}

RECURSIVE ChangeSeqs(_)
ChangeSeqs(n) ==
    IF n = 0 THEN {<< >>}
    ELSE LET shorter == ChangeSeqs(n - 1)
         IN  shorter \cup {Append(cs, c) : cs \in {x \in shorter : Len(x) = n - 1},
                                           c \in ChangeEntries}

\* one-sample corpora over every after map
RichAfterCorpora ==
    {<<Sample(TRUE, "map", d, FALSE, << >>, <<Chg(<<115>>)>>, MetaAddress)>> :
        d \in DictsUpTo(MaxAfter)}

\* one-sample corpora over every changes list
RichChangesCorpora ==
    {<<Sample(TRUE, "map", <<<<<<115, 67>>, JStr(<<115>>)>>>>, FALSE, << >>, cs, MetaAddress)>> :
        cs \in ChangeSeqs(MaxChanges)}

\* "edit", "delete"
LabelOperations == {<<101, 100, 105, 116>>, <<100, 101, 108, 101, 116, 101>>}

LabelMetas ==
    {Meta(hot, StrAddress, FALSE, << >>, FALSE, << >>) : hot \in BOOLEAN}
    \cup {Meta(TRUE, StrAddress, TRUE, op, FALSE, << >>) : op \in LabelOperations \cup {<< >>}}

LabelBefores ==
    {<< >>,
     <<<<<<115>>, JStr(<< >>)>>>>,
     <<<<<<115>>, JStr(<<115>>)>>>>,
     <<<<<<115>>, JStr(<< >>)>>, <<<<67>>, JStr(<<115>>)>>>>,
     <<<<<<115>>, JStr(<<115>>)>>, <<<<67>>, JList(<< >>)>>>>,
     <<<<<<67>>, JNum(0)>>>>,
     <<<<<<115>>, JEmptyDict>>>>}

\* one-sample corpora over the metadata and the before map
LabelCorpora ==
    {<<Sample(TRUE, "map", <<<<<<115, 67>>, JStr(<<115>>)>>>>, TRUE, b, << >>, md)>> :
        b \in LabelBefores, md \in LabelMetas}

\* {} and {"fortigate": {"address": {"identity_field": "s"}}}
VMaps ==
    {{}, {[vendor |-> StrFortigate, object_type |-> StrAddress, identity_field |-> <<115>>]}}

\* no "data"; "data" without "after"; "after": null; {"s": "", "C": "s"} in
\* both insertion orders; {"sC": null}
SmallData ==
    {<<FALSE, "absent", << >>>>,
     <<TRUE, "absent", << >>>>,
     <<TRUE, "null", << >>>>,
     <<TRUE, "map", <<<<<<115>>, JStr(<< >>)>>, <<<<67>>, JStr(<<115>>)>>>>>>,
     <<TRUE, "map", <<<<<<67>>, JStr(<<115>>)>>, <<<<115>>, JStr(<< >>)>>>>>>,
     <<TRUE, "map", <<<<<<115, 67>>, JNull>>>>>>}

\* no change; U+013B then "s" (one bucket); "s", "C", "s"
SmallChanges ==
    {<< >>,
     <<Chg(<<315>>), Chg(<<115>>)>>,
     <<Chg(<<115>>), Chg(<<67>>), Chg(<<115>>)>>}

\* every SmallData with the changes ["s"], and {"sC": null} with every
\* SmallChanges
SmallSamples ==
    {Sample(d[1], d[2], d[3], FALSE, << >>, <<Chg(<<115>>)>>, MetaAddress) : d \in SmallData}
    \cup {Sample(TRUE, "map", <<<<<<115, 67>>, JNull>>>>, FALSE, << >>, cs, MetaAddress) :
             cs \in SmallChanges}

RECURSIVE CorporaUpTo(_)
CorporaUpTo(n) ==
    IF n = 0 THEN {<< >>}
    ELSE LET shorter == CorporaUpTo(n - 1)
         IN  shorter \cup {Append(c, s) : c \in {x \in shorter : Len(x) = n - 1},
                                          s \in SmallSamples}

StrName == <<110, 97, 109, 101>>
StrStatus == <<115, 116, 97, 116, 117, 115>>
StrObj1 == <<111, 98, 106, 49>>
StrEnable == <<101, 110, 97, 98, 108, 101>>
StrDisable == <<100, 105, 115, 97, 98, 108, 101>>

\* {"data": {"before": {}, "after": {"name": "obj1", "status": "enable"},
\*           "changes": [{"field": "name"}]},
\*  "metadata": {"object_type": "address"}}
SampleA ==
    Sample(TRUE, "map", <<<<StrName, JStr(StrObj1)>>, <<StrStatus, JStr(StrEnable)>>>>,
           TRUE, << >>, <<Chg(StrName)>>, MetaAddress)

\* {"data": {"before": {"name": "obj1", "status": "enable"},
\*           "after": {"name": "obj1", "status": "disable"},
\*           "changes": [{"field": "status"}]},
\*  "metadata": {"object_type": "address"}}
SampleB ==
    Sample(TRUE, "map", <<<<StrName, JStr(StrObj1)>>, <<StrStatus, JStr(StrDisable)>>>>,
           TRUE, <<<<StrName, JStr(StrObj1)>>, <<StrStatus, JStr(StrEnable)>>>>,
           <<Chg(StrStatus)>>, MetaAddress)

\* the corpora of at most two samples over SampleA and SampleB
ScenarioCorpora ==
    {<< >>, <<SampleA>>, <<SampleB>>, <<SampleA, SampleB>>, <<SampleB, SampleA>>,
     <<SampleA, SampleA>>, <<SampleB, SampleB>>}

\* field maps that name "name", "status" or "s" as the identity field of
\* fortigate addresses, or "name" as that of another vendor or object type
ScenarioVMaps ==
    VMaps
    \cup {{[vendor |-> StrFortigate, object_type |-> StrAddress, identity_field |-> f]} :
             f \in {StrName, StrStatus}}
    \cup {{[vendor |-> StrUnknown, object_type |-> StrAddress, identity_field |-> StrName]},
          {[vendor |-> StrFortigate, object_type |-> StrUnknown, identity_field |-> StrName]}}

\* a corpus of more than one batch
FiveSamples == <<SampleA, SampleB, SampleA, SampleB, SampleA>>

\* <<corpus, field map>>
Inputs ==
    ((RichAfterCorpora \cup RichChangesCorpora \cup CorporaUpTo(MaxSamples)) \X {{}})
    \cup (LabelCorpora \X VMaps)
    \cup (ScenarioCorpora \X ScenarioVMaps)
    \cup {<<FiveSamples, {}>>}

----------------------------------------------------------------------------
(* preprocessing.py as a state machine *)

NoFile == << >>

HashIdle == h_in = << >> /\ h_pc = "idle" /\ h_out = 0 /\ h_bucket = 0

\* TrayApp.__init__, lines 483-492, with no request to serve
AppIdle ==
    /\ events = << >> /\ served = 0 /\ now = 0
    /\ stats = [total_events |-> 0, fortigate_events |-> 0, last_detection |-> -1]
    /\ recent_detections = << >>
    /\ duplicate_window = 30
    /\ notifications = << >>
    /\ last = << >>

TrainIdle ==
    /\ model = << >> /\ epoch = 0 /\ order = << >> /\ num_batches = 0 /\ steps = 0
    /\ training_losses = << >> /\ model_artifacts = NoFile /\ model_data = NoFile

Init ==
    /\ \E inp \in Inputs : samples = inp[1] /\ v_map = inp[2]
    /\ pc = "keys"
    /\ i = 0
    /\ sorted_keys = << >>
    /\ texts = << >>
    /\ structs = << >>
    /\ diffs = << >>
    /\ labels = << >>
    /\ max_len = 0
    /\ vocabulary = << >>
    /\ label_to_idx = << >>
    /\ train_pkl = NoFile
    /\ err = "none"
    /\ HashIdle
    /\ TrainIdle
    /\ AppIdle
    /\ disk = << >>

\* lines 36-40
ComputeKeys ==
    /\ pc = "keys"
    /\ IF KeysRaise(samples)
       THEN pc' = "raised" /\ err' = "AttributeError" /\ UNCHANGED sorted_keys
       ELSE pc' = "samples" /\ sorted_keys' = Sorted(all_keys(samples)) /\ UNCHANGED err
    /\ UNCHANGED <<samples, v_map, i, texts, structs, diffs, labels, max_len,
                   vocabulary, label_to_idx, train_pkl, hvars, tvars, fvars, avars>>

\* one pass of the loop of lines 53-107
ProcessSample ==
    /\ pc = "samples"
    /\ i < Len(samples)
    /\ LET s == samples[i + 1]
       IN  /\ texts' = Append(texts, TextView(s, sorted_keys))
           /\ structs' = Append(structs, StructView(s, sorted_keys))
           /\ diffs' = Append(diffs, DiffView(s))
           /\ labels' = Append(labels, Label(v_map, s))
    /\ i' = i + 1
    /\ UNCHANGED <<samples, v_map, pc, sorted_keys, max_len, vocabulary, label_to_idx,
                   train_pkl, err, hvars, tvars, fvars, avars>>

\* lines 110-115, once the loop is over
PadStructs ==
    /\ pc = "samples"
    /\ i = Len(samples)
    /\ max_len' = MaxStructLen(structs)
    /\ structs' = Padded(structs)
    /\ pc' = "vectorize"
    /\ UNCHANGED <<samples, v_map, i, sorted_keys, texts, diffs, labels, vocabulary,
                   label_to_idx, train_pkl, err, hvars, tvars, fvars, avars>>

\* lines 119-120
Vectorize ==
    /\ pc = "vectorize"
    /\ LET vocab == FitVocabulary(texts)
       IN  IF vocab = << >>
           THEN pc' = "raised" /\ err' = "ValueError" /\ UNCHANGED vocabulary
           ELSE pc' = "labels" /\ vocabulary' = vocab /\ UNCHANGED err
    /\ UNCHANGED <<samples, v_map, i, sorted_keys, texts, structs, diffs, labels,
                   max_len, label_to_idx, train_pkl, hvars, tvars, fvars, avars>>

\* lines 123-124
EncodeLabels ==
    /\ pc = "labels"
    /\ label_to_idx' = LabelToIdx(labels)
    /\ pc' = "write"
    /\ UNCHANGED <<samples, v_map, i, sorted_keys, texts, structs, diffs, labels,
                   max_len, vocabulary, train_pkl, err, hvars, tvars, fvars, avars>>

\* lines 126-139 (of tfidf_vectors, the float matrix, the record keeps the
\* shape)
WriteTrainPkl ==
    /\ pc = "write"
    /\ train_pkl' = <<[texts |-> texts,
                       tfidf_vectors |-> [shape |-> TfidfShape(texts, vocabulary)],
                       structs |-> structs, diffs |-> diffs,
                       labels |-> labels, label_to_idx |-> label_to_idx,
                       vectorizer |-> [vocabulary_ |-> VocabularyDict(vocabulary),
                                       idf_ |-> Idf(texts, vocabulary)],
                       struct_dim |-> max_len,
                       diff_dim |-> 200, feature_keys |-> sorted_keys]>>
    /\ pc' = "done"
    /\ UNCHANGED <<samples, v_map, i, sorted_keys, texts, structs, diffs, labels,
                   max_len, vocabulary, label_to_idx, err, hvars, tvars, fvars, avars>>

Next ==
    \/ ComputeKeys
    \/ ProcessSample
    \/ PadStructs
    \/ Vectorize
    \/ EncodeLabels
    \/ WriteTrainPkl

Spec == Init /\ [][Next]_vars

----------------------------------------------------------------------------
(* One call of stable_hash and of the bucket expression of line 84-85, on   *)
(* every string of at most MaxLen characters over HashChars                *)

PipelineIdle ==
    /\ samples = << >> /\ v_map = {} /\ pc = "idle" /\ i = 0
    /\ sorted_keys = << >> /\ texts = << >> /\ structs = << >> /\ diffs = << >>
    /\ labels = << >> /\ max_len = 0 /\ vocabulary = << >> /\ label_to_idx = << >>
    /\ train_pkl = NoFile /\ err = "none"

InitHash ==
    /\ h_in \in StringsUpTo(MaxLen)
    /\ h_pc = "call"
    /\ h_out = 0
    /\ h_bucket = 0
    /\ PipelineIdle
    /\ TrainIdle
    /\ AppIdle
    /\ disk = << >>

CallStableHash ==
    /\ h_pc = "call"
    /\ h_out' = stable_hash(h_in)
    /\ h_pc' = "hashed"
    /\ UNCHANGED <<h_in, h_bucket, pvars, tvars, fvars, avars>>

CallBucket ==
    /\ h_pc = "hashed"
    /\ h_bucket' = Bucket(h_in)
    /\ h_pc' = "done"
    /\ UNCHANGED <<h_in, h_out, pvars, tvars, fvars, avars>>

NextHash == CallStableHash \/ CallBucket

SpecHash == InitHash /\ [][NextHash]_vars

----------------------------------------------------------------------------
(* Properties: stable_hash and the bucket (SpecHash) *)

\* the fold h := (h * 31 + codepoint(c)) mod 2^32, on limbs
RECURSIVE RefFold(_, _)
RefFold(s, h) ==
    IF s = << >> THEN h
    ELSE LET lo == h[2] * 31 + (Head(s) % Limb)
             hi == h[1] * 31 + (Head(s) \div Limb) + (lo \div Limb)
         IN  RefFold(Tail(s), <<hi % Limb, lo % Limb>>)

MinInt32 == -2147483647 - 1

\* C1: stable_hash(s) is the signed 32-bit reading of the fold
\* h := (h * 31 + codepoint(c)) mod 2^32 from h = 0: it lies in
\* [-2^31, 2^31 - 1], is congruent to the fold modulo 2^32, and a second call
\* on the same string gives the same value.
C1_HashIsFold31 ==
    h_pc \in {"hashed", "done"} =>
        LET ref == RefFold(h_in, <<0, 0>>)
        IN  /\ h_out >= MinInt32
            /\ h_out <= 2147483647
            /\ (h_out \div Limb) % Limb = ref[1]
            /\ h_out % Limb = ref[2]
            /\ (h_out < 0) = (ref[1] >= 32768)
            /\ stable_hash(h_in) = h_out

\* a four-character string whose accumulator wrapped and whose hash is negative
C1_Witness ==
    h_pc = "hashed" /\ Len(h_in) = 4 /\ h_out < 0 /\ h_in[1] = 792931

\* C2: the bucket abs(stable_hash(field)) % 200 is an integer of 0..199, also
\* when the hash is -2^31.
C2_BucketInRange ==
    h_pc = "done" => h_bucket \in 0..(diff_len - 1)

\* the bucket of the string whose hash is -2^31 (2^31 % 200 = 48)
C2_Witness ==
    h_pc = "done" /\ h_out = MinInt32 /\ h_bucket = 48

----------------------------------------------------------------------------
(* Properties: the diff view (Spec) *)

\* the entries of a changes list
Entries(s) == {s.changes[j] : j \in 1..Len(s.changes)}

\* the buckets of the entries that carry a "field" (the empty name included)
BucketsOfNames(s) == {Bucket(c.field) : c \in {e \in Entries(s) : e.has_field}}

\* the buckets of the entries that carry a non-empty "field"
BucketsOfNonEmptyNames(s) ==
    {Bucket(c.field) : c \in {e \in Entries(s) : e.has_field /\ e.field # << >>}}

IsBitVector(v) == Len(v) = diff_len /\ \A b \in 1..diff_len : v[b] \in {0, 1}

\* C3 as claimed: the diff view is a 0/1 vector of length 200 whose position b
\* is 1 exactly when some entry of changes has a field name, the empty string
\* included, of bucket b.
C3_DiffBitsOfEveryName ==
    \A j \in 1..Len(diffs) :
        LET buckets == BucketsOfNames(samples[j])
        IN  /\ IsBitVector(diffs[j])
            /\ \A b \in 0..(diff_len - 1) : (diffs[j][b + 1] = 1) <=> (b \in buckets)

\* C3 (amended): the diff view is a 0/1 vector of length 200 whose position b
\* is 1 exactly when some entry of changes has a non-empty field name of
\* bucket b; an entry whose field name is empty or missing sets no bit, and a
\* record with no changes yields the all-zero vector.
C3_DiffBitsOfNonEmptyNames ==
    \A j \in 1..Len(diffs) :
        LET buckets == BucketsOfNonEmptyNames(samples[j])
        IN  /\ IsBitVector(diffs[j])
            /\ \A b \in 0..(diff_len - 1) : (diffs[j][b + 1] = 1) <=> (b \in buckets)
            /\ (samples[j].changes = << >>) => \A b \in 1..diff_len : diffs[j][b] = 0

\* a processed record with an empty-named entry beside a named one, whose
\* bucket 0 stays clear
C3_Witness ==
    \E j \in 1..Len(diffs) :
        /\ Chg(<< >>) \in Entries(samples[j])
        /\ Chg(MinIntName) \in Entries(samples[j])
        /\ diffs[j][1] = 0
        /\ diffs[j][49] = 1

RECURSIVE Reverse(_)
Reverse(xs) == IF xs = << >> THEN << >> ELSE Append(Reverse(Tail(xs)), Head(xs))

\* C4: the diff view depends only on the set of buckets of the changed field
\* names: two records with the same bucket set get the same vector, and
\* reversing the changes, or applying them a second time on the result,
\* leaves the vector as it is; nothing is raised while the records are
\* processed, collision or not.
C4_DiffOrSemantics ==
    \A j \in 1..Len(diffs) :
        /\ \A k \in 1..Len(diffs) :
               BucketsOfNonEmptyNames(samples[j]) = BucketsOfNonEmptyNames(samples[k])
                   => diffs[j] = diffs[k]
        /\ diffs[j] = DiffLoop([b \in 1..diff_len |-> 0], Reverse(samples[j].changes))
        /\ diffs[j] = DiffLoop(diffs[j], samples[j].changes)
        /\ \A b \in 1..diff_len : diffs[j][b] <= 1
        /\ pc = "raised" => (i = 0 \/ i = Len(samples))

\* two processed records, one with "s" alone and one with U+013B and "s"
\* (same bucket), with equal vectors
C4_Witness ==
    \E j, k \in 1..Len(diffs) :
        /\ samples[j].changes = <<Chg(<<115>>)>>
        /\ samples[k].changes = <<Chg(<<315>>), Chg(<<115>>)>>
        /\ diffs[j] = diffs[k]
        /\ diffs[j][116] = 1
        /\ pc = "done"

----------------------------------------------------------------------------
(* Properties: the struct view (Spec) *)

\* missing, null, false, an empty sequence or an empty string
IsEmptyValue(d, k) ==
    \/ ~HasKey(d, k)
    \/ LET v == Item(d, k)
       IN  \/ v.t = "null"
           \/ v.t = "bool" /\ v.n = 0
           \/ v.t = "list" /\ v.items = << >>
           \/ v.t = "str" /\ v.s = << >>

\* C5 as claimed: position k of the struct view is 0 if the value of k in
\* after is missing, null, false, an empty sequence or an empty string, and 1
\* for every other value (any number, any non-empty string, true, any
\* non-empty sequence, any mapping).
C5_StructBitByEmptiness ==
    \A j \in 1..Len(structs) :
        \A p \in 1..Len(sorted_keys) :
            p <= Len(structs[j]) =>
                structs[j][p] = IF IsEmptyValue(data_after(samples[j]), sorted_keys[p])
                                THEN 0 ELSE 1

\* C6: every struct vector has length |feature_keys|, max_len and the
\* persisted struct_dim equal len(feature_keys) (0 for an empty corpus), and
\* the padding step changes no vector.
C6_StructDim ==
    /\ [](/\ \A j \in 1..Len(structs) : Len(structs[j]) = Len(sorted_keys)
          /\ pc \in {"vectorize", "labels", "write", "done"} => max_len = Len(sorted_keys)
          /\ (pc = "vectorize" /\ samples = << >>) => max_len = 0
          /\ train_pkl # NoFile =>
                /\ train_pkl[1].struct_dim = Len(train_pkl[1].feature_keys)
                /\ \A j \in 1..Len(train_pkl[1].structs) :
                       Len(train_pkl[1].structs[j]) = train_pkl[1].struct_dim)
    /\ [][(pc = "samples" /\ pc' = "vectorize") => structs' = structs]_vars

\* a written train.pkl of two records over three keys, each record lacking
\* some key of the vocabulary
C6_Witness ==
    /\ train_pkl # NoFile
    /\ train_pkl[1].struct_dim = 3
    /\ Len(train_pkl[1].structs) = 2
    /\ \A j \in 1..2 : Len(data_after(samples[j])) < 3

----------------------------------------------------------------------------
(* Properties: the text view (Spec) *)

\* the key/value content of a dict, without its insertion order
Pairs(d) == {d[j] : j \in 1..Len(d)}

\* the text of the record whose after map holds the one key k of d
OneKeyText(d, k) == TextView([has_data |-> TRUE, after_kind |-> "map",
                              after |-> <<<<k, Item(d, k)>>>>], <<k>>)

\* the one-key texts of the keys of d, in the order of keys, space-joined
RECURSIVE JoinOneKeyTexts(_, _, _)
JoinOneKeyTexts(d, keys, first) ==
    IF keys = << >> THEN << >>
    ELSE IF HasKey(d, Head(keys))
    THEN (IF first THEN << >> ELSE <<32>>) \o OneKeyText(d, Head(keys))
         \o JoinOneKeyTexts(d, Tail(keys), FALSE)
    ELSE JoinOneKeyTexts(d, Tail(keys), first)

\* C7: the text view depends on the key/value content of after and on the
\* vocabulary order only: two records with the same pairs, inserted in any
\* order, get the same text, and the text is made of the per-key texts in
\* canonical-vocabulary order.
C7_TextIgnoresInsertionOrder ==
    \A j \in 1..Len(texts) :
        /\ \A k \in 1..Len(texts) :
               Pairs(data_after(samples[j])) = Pairs(data_after(samples[k]))
                   => texts[j] = texts[k]
        /\ texts[j] = JoinOneKeyTexts(data_after(samples[j]), sorted_keys, TRUE)

\* two processed records with the same pairs in different insertion orders
C7_Witness ==
    \E j, k \in 1..Len(texts) :
        /\ data_after(samples[j]) # data_after(samples[k])
        /\ Pairs(data_after(samples[j])) = Pairs(data_after(samples[k]))
        /\ Len(data_after(samples[j])) = 2
        /\ texts[j] = texts[k]

\* the value's part of the text: a space and the stringified element, for
\* each element of a sequence
RECURSIVE SpacedElements(_)
SpacedElements(xs) ==
    IF xs = << >> THEN << >> ELSE <<32>> \o PyStr(Head(xs)) \o SpacedElements(Tail(xs))

\* the text spelled out character by character: for each vocabulary key that
\* after holds, a space (but for the first), the name, then a space and the
\* stringified value, or a space and each stringified element of a sequence
RECURSIVE SpelledText(_, _, _)
SpelledText(d, keys, first) ==
    IF keys = << >> THEN << >>
    ELSE LET k == Head(keys)
             j == CHOOSE m \in 1..Len(d) : d[m][1] = k
         IN  IF \E m \in 1..Len(d) : d[m][1] = k
             THEN (IF first THEN << >> ELSE <<32>>) \o k
                  \o (IF d[j][2].t = "list" THEN SpacedElements(d[j][2].items)
                      ELSE <<32>> \o PyStr(d[j][2]))
                  \o SpelledText(d, Tail(keys), FALSE)
             ELSE SpelledText(d, Tail(keys), first)

\* C8: the text view is the single-space join of, for each vocabulary key
\* present in after in vocabulary order, the key name followed by the
\* stringified value (each element of a sequence stringified in order); an
\* absent key gives nothing, a key present with a null or empty value still
\* gives its name.
C8_TextIsSpacedJoin ==
    \A j \in 1..Len(texts) :
        /\ texts[j] = SpelledText(data_after(samples[j]), sorted_keys, TRUE)
        /\ \A k \in DictKeys(data_after(samples[j])) :
               \E p \in 1..(Len(texts[j]) - Len(k) + 1) :
                   \A q \in 1..Len(k) : texts[j][p + q - 1] = k[q]

\* a processed record that holds "sC" with the value null and lacks the
\* vocabulary keys "C" and "s": its text is "sC None"
C8_Witness ==
    \E j \in 1..Len(texts) :
        /\ Len(sorted_keys) = 3
        /\ data_after(samples[j]) = <<<<<<115, 67>>, JNull>>>>
        /\ texts[j] = <<115, 67, 32, 78, 111, 110, 101>>

----------------------------------------------------------------------------
(* Properties: records without data.after, and the vocabulary (Spec) *)

LacksAfter(s) == ~s.has_data \/ s.after_kind = "absent"

\* C9: a record with no "data", or with "data" but no "after", raises
\* nothing: its text view is empty, its struct view is all zeros of length
\* |feature_keys|, it gives no key to the vocabulary, and it gets a diff view
\* and a label like any other record.
C9_NoAfterIsNotAnError ==
    /\ err = "AttributeError" => \E j \in 1..Len(samples) : ~LacksAfter(samples[j])
    /\ (\A j \in 1..Len(samples) : LacksAfter(samples[j])) => err # "AttributeError"
    /\ pc \in {"vectorize", "labels", "write", "done"} => i = Len(samples)
    /\ Len(texts) = i /\ Len(structs) = i /\ Len(diffs) = i /\ Len(labels) = i
    /\ \A j \in 1..i :
           LacksAfter(samples[j]) =>
               /\ texts[j] = << >>
               /\ structs[j] = [p \in 1..Len(sorted_keys) |-> 0]
               /\ Len(diffs[j]) = diff_len
               /\ \A c \in Entries(samples[j]) :
                      (c.has_field /\ c.field # << >>) => diffs[j][Bucket(c.field) + 1] = 1
               /\ Len(labels[j]) > 0
               /\ (~samples[j].has_data /\ ~samples[j].metadata.has_operation) =>
                      \E ot \in {StrUnknown, samples[j].metadata.object_type} :
                          labels[j] = Upper(ot) \o <<32>> \o StrCREATE
    /\ \A p \in 1..Len(sorted_keys) :
           \E j \in 1..Len(samples) :
               ~LacksAfter(samples[j]) /\ HasKey(samples[j].after, sorted_keys[p])

\* a corpus that went through to train.pkl with a record without "data" and
\* a non-empty vocabulary
C9_Witness ==
    /\ pc = "done"
    /\ sorted_keys # << >>
    /\ \E j \in 1..Len(samples) :
           /\ ~samples[j].has_data
           /\ samples[j].changes # << >>
           /\ texts[j] = << >>
           /\ structs[j] = <<0>>

\* a < b in the lexicographic order of code points
LexLT(a, b) ==
    \E p \in 1..Len(b) :
        /\ p <= Len(a) + 1
        /\ \A q \in 1..(p - 1) : a[q] = b[q]
        /\ p = Len(a) + 1 \/ a[p] < b[p]

\* C10: feature_keys is exactly the union of the keys of data.after over all
\* samples, without duplicate, in strictly ascending lexicographic order; it
\* is computed before any sample's features and never modified afterwards.
C10_CanonicalKeys ==
    /\ [](/\ pc \in {"samples", "vectorize", "labels", "write", "done"} =>
                /\ {sorted_keys[p] : p \in 1..Len(sorted_keys)} = all_keys(samples)
                /\ Cardinality(all_keys(samples)) = Len(sorted_keys)
                /\ \A p \in 1..(Len(sorted_keys) - 1) :
                       LexLT(sorted_keys[p], sorted_keys[p + 1])
          /\ pc = "keys" => (i = 0 /\ texts = << >> /\ structs = << >> /\ diffs = << >>)
          /\ train_pkl # NoFile =>
                {train_pkl[1].feature_keys[p] : p \in 1..Len(train_pkl[1].feature_keys)}
                    = all_keys(samples))
    /\ [][pc # "keys" => sorted_keys' = sorted_keys]_vars

\* a vocabulary "C" < "s" < "sC" gathered from two records, after both were
\* processed
C10_Witness ==
    /\ sorted_keys = <<<<67>>, <<115>>, <<115, 67>>>>
    /\ i = 2
    /\ \A j \in 1..2 : DictKeys(data_after(samples[j])) # all_keys(samples)

----------------------------------------------------------------------------
(* train.py.  Parameters and losses are floats; a tensor is kept as its     *)
(* shape, and an epoch's average loss as the number of batches it averages  *)
(* over.                                                                    *)

hidden_dim == 128
batch_size == 4
num_epochs == 25

\* line 103
num_classes(data) == Cardinality(DOMAIN data.label_to_idx)

\* line 104
tfidf_dim(data) == data.tfidf_vectors.shape[2]

\* class MLP, lines 61-72: net.0 = Linear(input_dim, hidden_dim), net.2 =
\* Linear(hidden_dim, hidden_dim); a Linear(a, b) has a weight of b rows and
\* a columns
MLP(input_dim) ==
    [w0 |-> <<hidden_dim, input_dim>>, b0 |-> <<hidden_dim>>,
     w2 |-> <<hidden_dim, hidden_dim>>, b2 |-> <<hidden_dim>>]

\* class MultiheadModel, lines 74-88, as its state_dict
MultiheadModel(tfidf_d, struct_d, diff_d, n_classes) ==
    [txt_mlp |-> MLP(tfidf_d), struct_mlp |-> MLP(struct_d), diff_mlp |-> MLP(diff_d),
     classifier |-> [weight |-> <<n_classes, 3 * hidden_dim>>, bias |-> <<n_classes>>]]

\* the orders in which a shuffling loader can yield the indices 0..n-1
Shuffles(n) ==
    {p \in [1..n -> 0..(n - 1)] : \A a, b \in 1..n : p[a] = p[b] => a = b}

\* the indices of batch number b (from 0) of an epoch
BatchOf(ord, b) ==
    [k \in 1..(IF (b + 1) * batch_size <= Len(ord) THEN batch_size
               ELSE Len(ord) - b * batch_size) |-> ord[b * batch_size + k]]

\* ConfigDataset.__getitem__, lines 43-52: the label lookup of line 47
GetItemRaises(data, idx) == data.labels[idx + 1] \notin DOMAIN data.label_to_idx

\* MultiheadModel.forward, lines 90-100: each expert's first layer takes a
\* vector of its input width
ForwardRaises(data, m, idx) ==
    \/ data.tfidf_vectors.shape[2] # m.txt_mlp.w0[2]
    \/ Len(data.structs[idx + 1]) # m.struct_mlp.w0[2]
    \/ Len(data.diffs[idx + 1]) # m.diff_mlp.w0[2]

\* lines 11-21, 55-56, 103-138: load train.pkl, build the dataset, the loader
\* and the model
LoadTrainPkl ==
    /\ pc = "done"
    /\ LET data == train_pkl[1]
       IN  model' = <<MultiheadModel(tfidf_dim(data), data.struct_dim, data.diff_dim,
                                     num_classes(data))>>
    /\ epoch' = 0
    /\ steps' = 0
    /\ training_losses' = << >>
    /\ pc' = "epoch"
    /\ UNCHANGED <<samples, v_map, i, sorted_keys, texts, structs, diffs, labels,
                   max_len, vocabulary, label_to_idx, train_pkl, err, hvars, fvars, avars,
                   order, num_batches, model_artifacts, model_data>>

\* lines 140-145: an epoch starts, the loader shuffles
StartEpoch ==
    /\ pc = "epoch"
    /\ epoch < num_epochs
    /\ order' \in Shuffles(Len(train_pkl[1].labels))
    /\ num_batches' = 0
    /\ pc' = "batch"
    /\ UNCHANGED <<samples, v_map, i, sorted_keys, texts, structs, diffs, labels,
                   max_len, vocabulary, label_to_idx, train_pkl, err, hvars, fvars, avars,
                   model, epoch, steps, training_losses, model_artifacts, model_data>>

\* one pass of the loop of lines 145-157
TrainBatch ==
    /\ pc = "batch"
    /\ num_batches * batch_size < Len(order)
    /\ LET data == train_pkl[1]
           batch == BatchOf(order, num_batches)
       IN  IF \E k \in 1..Len(batch) : GetItemRaises(data, batch[k])
           THEN pc' = "raised" /\ err' = "KeyError" /\ UNCHANGED <<num_batches, steps>>
           ELSE IF \E k \in 1..Len(batch) : ForwardRaises(data, model[1], batch[k])
           THEN pc' = "raised" /\ err' = "RuntimeError" /\ UNCHANGED <<num_batches, steps>>
           ELSE /\ steps' = steps + 1
                /\ num_batches' = num_batches + 1
                /\ UNCHANGED <<pc, err>>
    /\ UNCHANGED <<samples, v_map, i, sorted_keys, texts, structs, diffs, labels,
                   max_len, vocabulary, label_to_idx, train_pkl, hvars, fvars, avars,
                   model, epoch, order, training_losses, model_artifacts, model_data>>

\* lines 159-161, once the loader is exhausted
EndEpoch ==
    /\ pc = "batch"
    /\ num_batches * batch_size >= Len(order)
    /\ training_losses' = Append(training_losses, [num_batches |-> num_batches])
    /\ epoch' = epoch + 1
    /\ order' = << >>
    /\ num_batches' = 0
    /\ pc' = "epoch"
    /\ UNCHANGED <<samples, v_map, i, sorted_keys, texts, structs, diffs, labels,
                   max_len, vocabulary, label_to_idx, train_pkl, err, hvars, fvars, avars,
                   model, steps, model_artifacts, model_data>>

\* data.get("feature_keys", []), line 184
ArtifactFeatureKeysDropped(data) == << >>

ArtifactFeatureKeys(data) == data.feature_keys

SaveReachedEachEpoch(ep) == ep >= 1

\* the statements after the loop of line 140 are reached once range(num_epochs)
\* is exhausted
SaveReached(ep) == ep = num_epochs

\* lines 178-188, after the last epoch
SaveArtifacts ==
    /\ pc = "epoch"
    /\ SaveReached(epoch)
    /\ LET data == train_pkl[1]
       IN  model_artifacts' =
               <<[model_state_dict |-> model[1], vectorizer |-> data.vectorizer,
                  label_map |-> data.label_to_idx, struct_dim |-> data.struct_dim,
                  diff_dim |-> data.diff_dim,
                  feature_keys |-> ArtifactFeatureKeys(data)]>>
    /\ pc' = "trained"
    /\ UNCHANGED <<samples, v_map, i, sorted_keys, texts, structs, diffs, labels,
                   max_len, vocabulary, label_to_idx, train_pkl, err, hvars, fvars, avars,
                   model, epoch, order, num_batches, steps, training_losses, model_data>>

----------------------------------------------------------------------------
(* export_model.py *)

\* lines 20-21: the terms of vocabulary_ by ascending column index
RECURSIVE SortByIndex(_, _)
SortByIndex(vocab, terms) ==
    IF terms = {} THEN << >>
    ELSE LET t == CHOOSE x \in terms : \A y \in terms : vocab[x] <= vocab[y]
         IN  <<t>> \o SortByIndex(vocab, terms \ {t})

vocab_list(vectorizer) == SortByIndex(vectorizer.vocabulary_, DOMAIN vectorizer.vocabulary_)

\* line 22
idf_list(vectorizer) == vectorizer.idf_

get_weightsSecondLayerTwice(state_dict, layer_name) ==
    [l1_weight |-> state_dict[layer_name].w2, l1_bias |-> state_dict[layer_name].b2,
     l2_weight |-> state_dict[layer_name].w2, l2_bias |-> state_dict[layer_name].b2]

\* lines 25-35
get_weights(state_dict, layer_name) ==
    [l1_weight |-> state_dict[layer_name].w0, l1_bias |-> state_dict[layer_name].b0,
     l2_weight |-> state_dict[layer_name].w2, l2_bias |-> state_dict[layer_name].b2]

\* {v: k for k, v in label_map.items()}, line 52; label_map keeps its keys
\* in ascending order, and a later item replaces an earlier one of the same
\* index
InvertLabelsOneBased(label_map) ==
    [v \in {label_map[l] + 1 : l \in DOMAIN label_map} |->
        CHOOSE l \in DOMAIN label_map : label_map[l] + 1 = v]

InvertLabels(label_map) ==
    [v \in {label_map[l] : l \in DOMAIN label_map} |->
        CHOOSE l \in DOMAIN label_map :
            /\ label_map[l] = v
            /\ \A m \in DOMAIN label_map : label_map[m] = v => (m = l \/ StrLess(m, l))]

\* json.dump writes an integer key of a dict as its decimal string, line 61
JsonKeys(d) ==
    [k \in {Digits(v) : v \in DOMAIN d} |-> d[CHOOSE v \in DOMAIN d : Digits(v) = k]]

\* the whole script, lines 8-63
ExportModel ==
    /\ pc = "trained"
    /\ LET artifacts == model_artifacts[1]
           state_dict == artifacts.model_state_dict
       IN  model_data' =
               <<[tfidf |-> [vocab |-> vocab_list(artifacts.vectorizer),
                             idf |-> idf_list(artifacts.vectorizer)],
                  model |-> [txt_mlp |-> get_weights(state_dict, "txt_mlp"),
                             struct_mlp |-> get_weights(state_dict, "struct_mlp"),
                             diff_mlp |-> get_weights(state_dict, "diff_mlp"),
                             fc |-> [weight |-> state_dict.classifier.weight,
                                     bias |-> state_dict.classifier.bias]],
                  metadata |-> [labels |-> JsonKeys(InvertLabels(artifacts.label_map)),
                                struct_dim |-> artifacts.struct_dim,
                                diff_dim |-> artifacts.diff_dim,
                                feature_keys |-> artifacts.feature_keys]]>>
    /\ pc' = "exported"
    /\ UNCHANGED <<samples, v_map, i, sorted_keys, texts, structs, diffs, labels,
                   max_len, vocabulary, label_to_idx, train_pkl, err, hvars, fvars, avars,
                   model, epoch, order, num_batches, steps, training_losses,
                   model_artifacts>>

----------------------------------------------------------------------------
(* preprocessing.py, train.py and export_model.py run one after the other  *)
(* on the corpora of the label scenarios                                   *)

PipelineInputs ==
    (LabelCorpora \X VMaps) \cup (ScenarioCorpora \X ScenarioVMaps) \cup {<<FiveSamples, {}>>}

InitPipeline ==
    /\ Init
    /\ <<samples, v_map>> \in PipelineInputs

NextPipeline ==
    \/ ComputeKeys
    \/ ProcessSample
    \/ PadStructs
    \/ Vectorize
    \/ EncodeLabels
    \/ WriteTrainPkl
    \/ LoadTrainPkl
    \/ StartEpoch
    \/ TrainBatch
    \/ EndEpoch
    \/ SaveArtifacts
    \/ ExportModel

SpecPipeline == InitPipeline /\ [][NextPipeline]_vars

----------------------------------------------------------------------------
(* Properties: the three stages together (SpecPipeline) *)

\* C11: the key vocabulary and the two dimensions are carried unchanged from
\* preprocessing through training to the export: feature_keys of train.pkl,
\* of model_artifacts.pkl and of the metadata of model_data.json are
\* sorted_keys in the same order, and struct_dim and diff_dim of the
\* artifacts and of the export are the values preprocessing wrote.
C11_KeysCarriedUnchanged ==
    /\ train_pkl # NoFile =>
          /\ train_pkl[1].feature_keys = sorted_keys
          /\ train_pkl[1].struct_dim = max_len
          /\ train_pkl[1].diff_dim = diff_len
    /\ model_artifacts # NoFile =>
          /\ model_artifacts[1].feature_keys = sorted_keys
          /\ model_artifacts[1].struct_dim = train_pkl[1].struct_dim
          /\ model_artifacts[1].diff_dim = train_pkl[1].diff_dim
    /\ model_data # NoFile =>
          /\ model_data[1].metadata.feature_keys = sorted_keys
          /\ model_data[1].metadata.struct_dim = train_pkl[1].struct_dim
          /\ model_data[1].metadata.diff_dim = train_pkl[1].diff_dim

\* an export whose feature_keys are "name", "status"
C11_Witness ==
    /\ model_data # NoFile
    /\ model_data[1].metadata.feature_keys = <<StrName, StrStatus>>
    /\ model_data[1].metadata.struct_dim = 2

----------------------------------------------------------------------------
(* Properties: the labels (Spec) *)

EndsWith(str, suffix) ==
    /\ Len(suffix) <= Len(str)
    /\ SubSeq(str, Len(str) - Len(suffix) + 1, Len(str)) = suffix

\* the label's OPERATION is CREATE or EDIT
IsCreateOrEdit(label) ==
    \/ EndsWith(label, <<32>> \o StrCREATE)
    \/ EndsWith(label, <<32>> \o StrEDIT)

\* the operation given by the metadata is something else than create or edit
HasOtherOperation(s) ==
    /\ s.metadata.has_operation
    /\ s.metadata.operation # << >>
    /\ Upper(s.metadata.operation) \notin {StrCREATE, StrEDIT}

\* C12: every label of the label list and every key of the label index has
\* the operation CREATE or EDIT; a record whose metadata gives another
\* non-empty operation ends the run with an error and adds no label.
C12_OnlyCreateOrEdit ==
    /\ \A j \in 1..Len(labels) : IsCreateOrEdit(labels[j])
    /\ \A l \in DOMAIN label_to_idx : IsCreateOrEdit(l)
    /\ \A j \in 1..Len(labels) : ~HasOtherOperation(samples[j])
    /\ (pc = "done" => \A j \in 1..Len(samples) : ~HasOtherOperation(samples[j]))

\* metadata.get("object_type", "unknown"), upper-cased, then a space
LabelPrefix(s) ==
    Upper(IF s.metadata.has_object_type THEN s.metadata.object_type ELSE StrUnknown)
    \o <<32>>

\* C13 as stated: the label is upper(object_type) + " " + upper(operation),
\* object_type defaulting to UNKNOWN, and whenever metadata.operation is
\* present the label is built from it, whatever the field map and data.before
\* are.
C13_PresentOperationIsUsed ==
    \A j \in 1..Len(labels) :
        LET s == samples[j]
        IN  /\ \E op \in {s.metadata.operation, StrCREATE, StrEDIT} :
                   labels[j] = LabelPrefix(s) \o Upper(op)
            /\ s.metadata.has_operation =>
                   labels[j] = LabelPrefix(s) \o Upper(s.metadata.operation)

\* C13: the label is upper(object_type) + " " + upper(operation), object_type
\* defaulting to UNKNOWN; whenever metadata.operation is present and not
\* empty the label is built from it, whatever the field map and data.before
\* are; when it is absent or empty the operation is CREATE or EDIT.
C13_NonEmptyOperationIsUsed ==
    \A j \in 1..Len(labels) :
        LET s == samples[j]
        IN  IF s.metadata.has_operation /\ s.metadata.operation # << >>
            THEN labels[j] = LabelPrefix(s) \o Upper(s.metadata.operation)
            ELSE labels[j] \in {LabelPrefix(s) \o StrCREATE, LabelPrefix(s) \o StrEDIT}

\* "operation": "edit" on a record whose before map is empty, under a field
\* map that names an identity field: inference would give CREATE, the label
\* is ADDRESS EDIT
C13_Witness ==
    /\ Len(labels) = 1
    /\ samples[1].metadata.has_operation
    /\ samples[1].before = << >>
    /\ v_map # {}
    /\ labels[1] = Upper(StrAddress) \o <<32>> \o StrEDIT

\* metadata gives no operation to use
OperationAbsent(s) == ~s.metadata.has_operation \/ s.metadata.operation = << >>

\* the field map names an identity field for the record's vendor and object
\* type, and data.before has that key
HasIdentityInBefore(vm, s) ==
    /\ identity_field(vm, s.metadata) # << >>
    /\ HasKey(data_before(s), identity_field(vm, s.metadata))

\* C14: without an operation in the metadata, when the field map names an
\* identity field that is a key of data.before, the operation is CREATE if
\* the before-value of that field is falsy and EDIT otherwise, whatever the
\* other values of data.before are.
C14_IdentityFieldDecides ==
    \A j \in 1..Len(labels) :
        LET s == samples[j]
        IN  (OperationAbsent(s) /\ HasIdentityInBefore(v_map, s)) =>
                labels[j] = LabelPrefix(s) \o
                    (IF Truthy(Item(s.before, identity_field(v_map, s.metadata)))
                     THEN StrEDIT ELSE StrCREATE)

\* before = {"s": "", "C": "s"} under the identity field "s": CREATE, though
\* another value of before is not empty
C14_Witness ==
    /\ Len(labels) = 1
    /\ OperationAbsent(samples[1])
    /\ HasIdentityInBefore(v_map, samples[1])
    /\ samples[1].before = <<<<<<115>>, JStr(<< >>)>>, <<<<67>>, JStr(<<115>>)>>>>
    /\ labels[1] = LabelPrefix(samples[1]) \o StrCREATE

\* null, false, the empty string or the empty sequence
IsOneOfTheFourEmpties(v) ==
    \/ v.t = "null"
    \/ v.t = "bool" /\ v.n = 0
    \/ v.t = "str" /\ v.s = << >>
    \/ v.t = "list" /\ v.items = << >>

\* C15: without an operation in the metadata and without an identity field
\* found in data.before, the operation is CREATE if and only if data.before
\* is missing or empty or every value in it is null, false, the empty string
\* or the empty sequence, and EDIT otherwise.
C15_GenericInference ==
    \A j \in 1..Len(labels) :
        LET s == samples[j]
            before == data_before(s)
        IN  (OperationAbsent(s) /\ ~HasIdentityInBefore(v_map, s)) =>
                labels[j] = LabelPrefix(s) \o
                    (IF before = << >> \/ \A v \in DictValues(before) : IsOneOfTheFourEmpties(v)
                     THEN StrCREATE ELSE StrEDIT)

----------------------------------------------------------------------------
(* Properties: the label index and the export (SpecPipeline) *)

\* the positions of the scripts at which label_to_idx has been computed
LabelsEncoded == pc \in {"write", "done", "epoch", "batch", "trained", "exported"}

\* C16: label_to_idx maps exactly the distinct labels of the corpus one-to-one
\* onto 0..num_labels-1, a smaller label (by code point) to a smaller index;
\* every sample's label is a key of it, and the label lookup of the training
\* dataset never fails.
C16_LabelIndexIsBijection ==
    /\ LabelsEncoded =>
          LET keys == DOMAIN label_to_idx
          IN  /\ keys = {labels[j] : j \in 1..Len(labels)}
              /\ {label_to_idx[l] : l \in keys} = 0..(Cardinality(keys) - 1)
              /\ \A l, m \in keys : LexLT(l, m) => label_to_idx[l] < label_to_idx[m]
              /\ \A j \in 1..Len(samples) : labels[j] \in keys
    /\ err # "KeyError"

\* the corpus B, A: ADDRESS CREATE is 0 and ADDRESS EDIT is 1, and a batch
\* holding both samples has been looked up and stepped
C16_Witness ==
    /\ samples = <<SampleB, SampleA>>
    /\ steps > 0
    /\ label_to_idx[labels[1]] = 1
    /\ label_to_idx[labels[2]] = 0

\* C17: the labels table of the export is the inverse of label_to_idx: it
\* has one entry per index 0..num_labels-1 (keyed, as JSON does, by the
\* decimal string of the index), the entry of the index of a label is that
\* label, and no label is lost or duplicated.
C17_LabelsInvertIndex ==
    model_data # NoFile =>
        LET exported == model_data[1].metadata.labels
            keys == DOMAIN label_to_idx
        IN  /\ model_artifacts[1].label_map = label_to_idx
            /\ DOMAIN exported = {Digits(k) : k \in 0..(Cardinality(keys) - 1)}
            /\ Cardinality(DOMAIN exported) = Cardinality(keys)
            /\ \A l \in keys : exported[Digits(label_to_idx[l])] = l
            /\ {exported[k] : k \in DOMAIN exported} = keys

\* an export of two labels: "0" is ADDRESS CREATE, "1" is ADDRESS EDIT
C17_Witness ==
    /\ model_data # NoFile
    /\ DOMAIN model_data[1].metadata.labels = {<<48>>, <<49>>}
    /\ model_data[1].metadata.labels[<<48>>] = Upper(StrAddress) \o <<32>> \o StrCREATE
    /\ model_data[1].metadata.labels[<<49>>] = Upper(StrAddress) \o <<32>> \o StrEDIT

\* C18: in every export, tfidf.vocab and tfidf.idf have the same length,
\* which is the input width of the text expert (the columns of
\* txt_mlp.l1_weight), and vocab lists the terms by ascending column index;
\* metadata.struct_dim is the input width of the struct expert;
\* metadata.diff_dim is 200 and is the input width of the diff expert; fc has
\* one row per label.
C18_ExportDimensionsAgree ==
    model_data # NoFile =>
        LET out == model_data[1]
            vocabulary_ == train_pkl[1].vectorizer.vocabulary_
        IN  /\ Len(out.tfidf.vocab) = Len(out.tfidf.idf)
            /\ Len(out.tfidf.vocab) = out.model.txt_mlp.l1_weight[2]
            /\ \A j \in 1..Len(out.tfidf.vocab) : vocabulary_[out.tfidf.vocab[j]] = j - 1
            /\ Len(out.tfidf.vocab) = Cardinality(DOMAIN vocabulary_)
            /\ out.metadata.struct_dim = out.model.struct_mlp.l1_weight[2]
            /\ out.metadata.diff_dim = 200
            /\ out.metadata.diff_dim = out.model.diff_mlp.l1_weight[2]
            /\ out.model.fc.weight[1] = Cardinality(DOMAIN out.metadata.labels)
            /\ out.model.fc.weight[1] = Cardinality(DOMAIN label_to_idx)

\* an export with five terms, two keys and two labels
C18_Witness ==
    /\ model_data # NoFile
    /\ Len(model_data[1].tfidf.vocab) = 5
    /\ model_data[1].model.txt_mlp.l1_weight = <<hidden_dim, 5>>
    /\ model_data[1].model.struct_mlp.l1_weight = <<hidden_dim, 2>>
    /\ model_data[1].model.fc.weight = <<2, 3 * hidden_dim>>

----------------------------------------------------------------------------
(* Properties: the two-sample scenario and the degenerate corpora *)

StrAddressCreate == Upper(StrAddress) \o <<32>> \o StrCREATE
StrAddressEdit == Upper(StrAddress) \o <<32>> \o StrEDIT

\* C19: on the corpus of the samples A (before = {}) and B (before =
\* {"name": "obj1", "status": "enable"}), both of object type address and
\* without an operation, preprocessing labels A "ADDRESS CREATE" and B
\* "ADDRESS EDIT" and builds label_to_idx = {"ADDRESS CREATE": 0,
\* "ADDRESS EDIT": 1}, whatever the field map is.
C19_ScenarioLabels ==
    (samples = <<SampleA, SampleB>> /\ pc \in {"write", "done"}) =>
        /\ labels = <<StrAddressCreate, StrAddressEdit>>
        /\ DOMAIN label_to_idx = {StrAddressCreate, StrAddressEdit}
        /\ label_to_idx[StrAddressCreate] = 0
        /\ label_to_idx[StrAddressEdit] = 1
        /\ err = "none"

\* the scenario has been written to train.pkl under a field map that names
\* "name" as the identity field of fortigate addresses
C19_Witness ==
    /\ samples = <<SampleA, SampleB>>
    /\ \E e \in v_map : e.vendor = StrFortigate /\ e.identity_field = StrName
    /\ train_pkl # NoFile
    /\ train_pkl[1].labels = <<StrAddressCreate, StrAddressEdit>>
    /\ train_pkl[1].label_to_idx[StrAddressEdit] = 1

\* the corpus has no sample, or its samples all got the same label
DegenerateCorpus ==
    \/ samples = << >>
    \/ Len(labels) = Len(samples) /\ Cardinality({labels[j] : j \in 1..Len(labels)}) = 1

\* C20: on a corpus of zero samples and on a corpus whose samples all get
\* the same label, preprocessing (the lexical fit included), training and
\* export raise nothing, and the export they end with has 0 or 1 labels.
C20_DegenerateCorpusCompletes ==
    DegenerateCorpus =>
        /\ err = "none"
        /\ pc # "raised"
        /\ model_data # NoFile =>
              Cardinality(DOMAIN model_data[1].metadata.labels) =
                  (IF samples = << >> THEN 0 ELSE 1)

----------------------------------------------------------------------------
(* preprocessing.py from its first line: the corpus is read from the named  *)
(* training file or, when that one does not exist, from data.json.  A file  *)
(* is a record [kind, samples]: "absent"; "invalid", not JSON; "no_samples",*)
(* a JSON object without the key "samples"; "valid", with samples.          *)

File(kind, ss) == [kind |-> kind, samples |-> ss]

\* lines 10-13
SelectedPath(d) == IF d.named.kind # "absent" THEN d.named ELSE d.fallback

\* lines 15-21: the exception the loading ends with, "none" if it succeeds
LoadErrorLenient(file) == "none"

LoadError(file) ==
    CASE file.kind = "absent" -> "SystemExit"
      [] file.kind = "invalid" -> "JSONDecodeError"
      [] file.kind = "no_samples" -> "KeyError"
      [] OTHER -> "none"

\* lines 10-32
LoadCorpus ==
    /\ pc = "load"
    /\ LET file == SelectedPath(disk)
       IN  IF LoadError(file) # "none"
           THEN pc' = "raised" /\ err' = LoadError(file) /\ UNCHANGED samples
           ELSE pc' = "keys" /\ samples' = file.samples /\ UNCHANGED err
    /\ UNCHANGED <<v_map, i, sorted_keys, texts, structs, diffs, labels, max_len,
                   vocabulary, label_to_idx, train_pkl, hvars, tvars, fvars, avars>>

FileKinds == {"absent", "invalid", "no_samples", "valid"}

\* the named file holds any scenario corpus, data.json the corpus B, B, A
Disks ==
    {[named |-> File(k1, IF k1 = "valid" THEN c ELSE << >>),
      fallback |-> File(k2, IF k2 = "valid" THEN <<SampleB, SampleB, SampleA>> ELSE << >>)] :
        k1 \in FileKinds, k2 \in FileKinds, c \in ScenarioCorpora}

InitLoad ==
    /\ disk \in Disks
    /\ samples = << >>
    /\ v_map \in VMaps
    /\ pc = "load"
    /\ i = 0
    /\ sorted_keys = << >>
    /\ texts = << >>
    /\ structs = << >>
    /\ diffs = << >>
    /\ labels = << >>
    /\ max_len = 0
    /\ vocabulary = << >>
    /\ label_to_idx = << >>
    /\ train_pkl = NoFile
    /\ err = "none"
    /\ HashIdle
    /\ TrainIdle
    /\ AppIdle

NextLoad ==
    \/ LoadCorpus
    \/ ComputeKeys
    \/ ProcessSample
    \/ PadStructs
    \/ Vectorize
    \/ EncodeLabels
    \/ WriteTrainPkl

SpecLoad == InitLoad /\ [][NextLoad]_vars

----------------------------------------------------------------------------
(* Properties: loading the corpus (SpecLoad) *)

\* neither file exists, or the file that is read is not a JSON object with
\* samples
CorpusUnavailable ==
    \/ disk.named.kind = "absent" /\ disk.fallback.kind = "absent"
    \/ disk.named.kind \in {"invalid", "no_samples"}
    \/ disk.named.kind = "absent" /\ disk.fallback.kind \in {"invalid", "no_samples"}

\* C21: when the corpus is missing (neither the named file nor data.json
\* exists) or cannot be parsed, preprocessing ends with a failure before it
\* extracts any sample and writes no train.pkl; and train.pkl is written only
\* once every sample of the corpus has been processed.
C21_FailFastNoPartialOutput ==
    /\ (CorpusUnavailable /\ pc # "load") =>
          /\ pc = "raised"
          /\ err \in {"SystemExit", "JSONDecodeError", "KeyError"}
          /\ i = 0 /\ sorted_keys = << >> /\ texts = << >> /\ labels = << >>
          /\ train_pkl = NoFile
    /\ train_pkl # NoFile =>
          /\ ~CorpusUnavailable
          /\ samples = SelectedPath(disk).samples
          /\ i = Len(samples)
          /\ Len(train_pkl[1].texts) = Len(samples)
          /\ Len(train_pkl[1].structs) = Len(samples)
          /\ Len(train_pkl[1].diffs) = Len(samples)
          /\ Len(train_pkl[1].labels) = Len(samples)

\* the named file is absent and data.json is not JSON: the run has ended
\* with the decoder's error
C21_Witness ==
    /\ disk.named.kind = "absent"
    /\ disk.fallback.kind = "invalid"
    /\ pc = "raised"
    /\ err = "JSONDecodeError"

----------------------------------------------------------------------------
(* Properties: the export and the training loop (SpecPipeline) *)

\* the fields of an export that hold the vocabulary, the weights, the biases
\* and the metadata
DataFields ==
    {<<"tfidf">>, <<"tfidf", "vocab">>, <<"tfidf", "idf">>,
     <<"model">>, <<"model", "fc">>, <<"model", "fc", "weight">>, <<"model", "fc", "bias">>,
     <<"metadata">>, <<"metadata", "labels">>, <<"metadata", "struct_dim">>,
     <<"metadata", "diff_dim">>, <<"metadata", "feature_keys">>}
    \cup {<<"model", e>> : e \in {"txt_mlp", "struct_mlp", "diff_mlp"}}
    \cup {<<"model", e, f>> : e \in {"txt_mlp", "struct_mlp", "diff_mlp"},
                              f \in {"l1_weight", "l1_bias", "l2_weight", "l2_bias"}}

\* the paths of the fields of an export
ExportFields(out) ==
    {<<k>> : k \in DOMAIN out}
    \cup {<<"tfidf", k>> : k \in DOMAIN out.tfidf}
    \cup {<<"metadata", k>> : k \in DOMAIN out.metadata}
    \cup {<<"model", k>> : k \in DOMAIN out.model}
    \cup UNION {{<<"model", e, k>> : k \in DOMAIN out.model[e]} : e \in DOMAIN out.model}

\* C22: every export holds, beside the fields of its data, a field that
\* states the row/column convention of its weight matrices.
C22_ExportStatesConvention ==
    model_data # NoFile => \E f \in ExportFields(model_data[1]) : f \notin DataFields

\* ceil(n / batch_size)
BatchesOf(n) == (n + batch_size - 1) \div batch_size

\* C23: model_artifacts.pkl is written once, after the last optimizer step of
\* the last epoch: while the epochs run no artifact exists, the write happens
\* when all num_epochs epochs and all their steps are done, and the artifact
\* is not written again.
C23_SavedOnceAtTheEnd ==
    /\ [](/\ pc \in {"keys", "samples", "vectorize", "labels", "write", "done",
                     "epoch", "batch"} => model_artifacts = NoFile
          /\ model_artifacts # NoFile =>
                /\ epoch = num_epochs
                /\ Len(training_losses) = num_epochs
                /\ steps = num_epochs * BatchesOf(Len(samples)))
    /\ [][model_artifacts' # model_artifacts =>
             /\ model_artifacts = NoFile
             /\ pc = "epoch" /\ pc' = "trained"
             /\ epoch = num_epochs
             /\ steps = num_epochs * BatchesOf(Len(samples))]_vars

\* the artifact of the five-sample corpus, written after 50 steps
C23_Witness ==
    /\ model_artifacts # NoFile
    /\ Len(samples) = 5
    /\ steps = 50
    /\ epoch = 25

\* the positions of train.py
Training == pc \in {"epoch", "batch", "trained", "exported"}

\* what C24 says of the epochs, the batches and the losses
EpochsAndBatches ==
    LET n == Len(samples)
    IN  /\ pc = "batch" =>
              /\ Len(order) = n
              /\ {order[k] : k \in 1..n} = 0..(n - 1)
              /\ num_batches * batch_size < n =>
                     Len(BatchOf(order, num_batches)) \in 1..4
              /\ num_batches <= BatchesOf(n)
        /\ Training =>
              /\ Len(training_losses) = epoch
              /\ epoch <= 25
              /\ \A e \in 1..epoch : training_losses[e].num_batches = BatchesOf(n)
              /\ steps = epoch * BatchesOf(n) + num_batches
        /\ pc \in {"trained", "exported"} => Len(training_losses) = 25

\* C24: for a corpus of N samples, N = 0 included, nothing ends the run
\* before training has done its 25 epochs; in each epoch the loader yields
\* every sample once, in batches of at most 4, ceil(N/4) optimizer steps are
\* taken and one average loss is appended, so that training_losses has
\* length 25 at the end.
C24_TwentyFiveEpochs == pc # "raised" /\ EpochsAndBatches

----------------------------------------------------------------------------
(* fixed_tray_app.py: TrayApp behind TrayHandler.do_POST.                   *)
(*                                                                          *)
(* Time is in whole seconds.  A request body is the record                 *)
(*   is_object         the body is a JSON object                            *)
(*   type, eventType   data["type"], data["eventType"]                      *)
(*   url               data["data"]["url"], a number standing for the text, *)
(*                     UrlNull for null                                     *)
(*   isStreaming, label, confidence   the fields of an ML prediction, the   *)
(*                     confidence in tenths, ConfidenceNull for null        *)
(* A detection key f"{a}:{b}:{c}:{d}" is the tuple <<a, b, c, d>>, a key   *)
(* of fewer parts being filled up with "" and 0; a                          *)
(* notification is kept as [title, label, time], the title without its      *)
(* emoji and, for an ML prediction, without the label worked into it.       *)

max_recent_items == 10

UrlNull == 0
ConfidenceNull == -1

\* (current_time - timestamp).seconds, lines 605: the seconds field of the
\* timedelta, which leaves the days out
DeltaSeconds(t, timestamp) == (t - timestamp) % 86400

\* lines 603-606
Prune(recent, window, t) ==
    LET Fresh(e) == DeltaSeconds(t, e[2]) < window
    IN  SelectSeq(recent, Fresh)

\* lines 617-618
KeepRecentOldest(recent) ==
    IF Len(recent) > max_recent_items THEN SubSeq(recent, 1, max_recent_items) ELSE recent

KeepRecent(recent) ==
    IF Len(recent) > max_recent_items
    THEN SubSeq(recent, Len(recent) - max_recent_items + 1, Len(recent))
    ELSE recent

\* _is_duplicate_detection, lines 598-620: the value returned and the list
\* left in self.recent_detections
is_duplicate_detection(recent, window, detection_key, t) ==
    LET kept == Prune(recent, window, t)
    IN  IF \E j \in 1..Len(kept) : kept[j][1] = detection_key
        THEN [is_duplicate |-> TRUE, recent |-> kept]
        ELSE [is_duplicate |-> FALSE,
              recent |-> KeepRecent(Append(kept, <<detection_key, t>>))]

\* the state of the TrayApp object
App ==
    [stats |-> stats, recent_detections |-> recent_detections,
     duplicate_window |-> duplicate_window, notifications |-> notifications]

\* what the handling of a request did: the handlers called, the exception
\* raised, the keys given to _is_duplicate_detection with the value returned
\* and the window applied, and the notifications shown
Quiet(handlers) == [handlers |-> handlers, raised |-> "none", checks |-> << >>, shown |-> << >>]

Raising(handlers, exception) ==
    [handlers |-> handlers, raised |-> exception, checks |-> << >>, shown |-> << >>]

\* self.stats['fortigate_events'] += 1; self.stats['last_detection'] = ...
Detected(app, t) ==
    [app EXCEPT !.stats.fortigate_events = @ + 1, !.stats.last_detection = t]

\* a handler's deduplication check and the notification after it
CheckAndShow(app, t, handler, key, titles) ==
    LET d == is_duplicate_detection(app.recent_detections, app.duplicate_window, key, t)
        shown == IF titles[d.is_duplicate] = "" THEN << >>
                 ELSE <<[title |-> titles[d.is_duplicate], label |-> key[2], time |-> t]>>
    IN  [app |-> [app EXCEPT !.recent_detections = d.recent,
                             !.notifications = @ \o shown],
         obs |-> [handlers |-> <<handler>>, raised |-> "none",
                  checks |-> <<[key |-> key, is_duplicate |-> d.is_duplicate,
                                window |-> app.duplicate_window]>>,
                  shown |-> shown]]

\* the handlers of lines 770-1008, all of one shape: event type, handler, key
\* prefix, the two saved events and their titles
StandardHandlers ==
    {<<"INTERFACE_CHANGE", "_handle_interface_change_event", "interface",
       "INTERFACE_CREATED", "INTERFACE CREATED!", "INTERFACE_EDITED", "INTERFACE SAVED!">>,
     <<"DOS_POLICY_CHANGE", "_handle_dos_policy_change_event", "dos_policy",
       "DOS_POLICY_CREATED", "DoS Policy Created!", "DOS_POLICY_UPDATED", "DoS Policy Updated!">>,
     <<"ADDRESS_CHANGE", "_handle_address_change_event", "address",
       "ADDRESS_CREATED", "Address Created!", "ADDRESS_UPDATED", "Address Updated!">>,
     <<"CENTRAL_SNAT_CHANGE", "_handle_central_snat_change_event", "central_snat",
       "CENTRAL_SNAT_CREATED", "SNAT Created!", "CENTRAL_SNAT_UPDATED", "SNAT Updated!">>,
     <<"FIREWALL_SERVICE_CHANGE", "_handle_firewall_service_change_event", "firewall_service",
       "FIREWALL_SERVICE_CREATED", "Service Created!", "FIREWALL_SERVICE_UPDATED",
       "Service Updated!">>,
     <<"VPN_CHANGE", "_handle_vpn_change_event", "vpn",
       "VPN_CREATED", "VPN Created", "VPN_EDITED", "VPN Updated">>}

\* e.g. _handle_interface_change_event, lines 770-810
handle_standard_change_event(app, data, t, h) ==
    IF data.url = UrlNull THEN [app |-> app, obs |-> Raising(<<h[2]>>, "TypeError")]
    ELSE CheckAndShow(Detected(app, t), t, h[2],
                      <<h[3], data.eventType, "unknown", data.url>>,
                      [dup \in BOOLEAN |->
                          IF dup THEN ""
                          ELSE IF data.eventType = h[4] THEN h[5]
                          ELSE IF data.eventType = h[6] THEN h[7]
                          ELSE ""])

\* the if / elif chain of lines 717-737: `if not is_duplicate:` is its first
\* arm and the event types are the later ones
PolicyTitles(eventType) ==
    [dup \in BOOLEAN |->
        IF ~dup THEN ""
        ELSE IF eventType = "POLICY_EDITING" THEN ""
        ELSE IF eventType = "POLICY_CREATED" THEN "POLICY CREATED!"
        ELSE IF eventType = "POLICY_EDITED" THEN "POLICY SAVED!"
        ELSE ""]

handle_policy_change_event(app, data, t) ==
    IF data.url = UrlNull
    THEN [app |-> app, obs |-> Raising(<<"_handle_policy_change_event">>, "TypeError")]
    ELSE CheckAndShow(Detected(app, t), t, "_handle_policy_change_event",
                      <<"policy", data.eventType, "unknown", data.url>>,
                      PolicyTitles(data.eventType))

\* _handle_password_change_event, lines 622-666
handle_password_change_event(app, data, t) ==
    IF data.url = UrlNull
    THEN [app |-> app, obs |-> Raising(<<"_handle_password_change_event">>, "TypeError")]
    ELSE IF data.eventType \in {"PASSWORD_FIELD_CHANGED", "PASSWORD_FIELD_MODIFIED"}
    THEN CheckAndShow(Detected(app, t), t, "_handle_password_change_event",
                      <<"password", "None", "", data.url>>, [dup \in BOOLEAN |-> ""])
    ELSE [app |-> app, obs |-> Quiet(<<"_handle_password_change_event">>)]

ConfidenceReasonableInclusive(confidence) == confidence >= 4

\* confidence > 0.4, line 1026
ConfidenceReasonable(confidence) == confidence > 4

\* _handle_ml_prediction_event, lines 1010-1059
handle_ml_prediction_event(app, data, t) ==
    IF ~data.isStreaming
    THEN [app |-> app, obs |-> Quiet(<<"_handle_ml_prediction_event">>)]
    ELSE IF data.confidence = ConfidenceNull
    THEN [app |-> app, obs |-> Raising(<<"_handle_ml_prediction_event">>, "TypeError")]
    ELSE IF ConfidenceReasonable(data.confidence)
    THEN CheckAndShow([app EXCEPT !.duplicate_window = 10], t,
                      "_handle_ml_prediction_event",
                      <<"ML_STREAM", data.label, "", 0>>,
                      [dup \in BOOLEAN |-> IF dup THEN "" ELSE "ML"])
    ELSE [app |-> app, obs |-> Quiet(<<"_handle_ml_prediction_event">>)]

\* the tests of process_browser_data in their order, lines 1070-1143, each
\* with the handler it calls before it returns ("" for the inline block of
\* ADMIN_USER_CHANGE)
DispatchChain ==
    <<<<"ADMIN_USER_CHANGE", "">>,
      <<"POLICY_LIVE_STATUS", "_handle_policy_live_status">>,
      <<"POLICY_CHANGE", "_handle_policy_change_event">>,
      <<"DOS_POLICY_CHANGE", "_handle_dos_policy_change_event">>,
      <<"DOS_POLICY_CHANGE", "_handle_dos_policy_change_event">>,
      <<"INTERFACE_CHANGE", "_handle_interface_change_event">>,
      <<"ADDRESS_CHANGE", "_handle_address_change_event">>,
      <<"CENTRAL_SNAT_CHANGE", "_handle_central_snat_change_event">>,
      <<"FIREWALL_SERVICE_CHANGE", "_handle_firewall_service_change_event">>,
      <<"PASSWORD_CHANGE", "_handle_password_change_event">>,
      <<"VPN_CHANGE", "_handle_vpn_change_event">>,
      <<"ML_PREDICTION_RESULT", "_handle_ml_prediction_event">>>>

\* the handlers a request of the given type reaches
RECURSIVE Dispatched(_, _)
Dispatched(event_type, chain) ==
    IF chain = << >> THEN << >>
    ELSE IF Head(chain)[1] = event_type
    THEN (IF Head(chain)[2] = "" THEN << >> ELSE <<Head(chain)[2]>>)
    ELSE Dispatched(event_type, Tail(chain))

\* the call of one handler
RunHandler(handler, app, data, t) ==
    CASE handler = "_handle_policy_live_status" -> [app |-> app, obs |-> Quiet(<<handler>>)]
      [] handler = "_handle_policy_change_event" -> handle_policy_change_event(app, data, t)
      [] handler = "_handle_password_change_event" -> handle_password_change_event(app, data, t)
      [] handler = "_handle_ml_prediction_event" -> handle_ml_prediction_event(app, data, t)
      [] OTHER -> handle_standard_change_event(
                      app, data, t, CHOOSE h \in StandardHandlers : h[2] = handler)

CountEventNever(app) == app

\* self.stats['total_events'] += 1, line 1064
CountEvent(app) == [app EXCEPT !.stats.total_events = @ + 1]

\* process_browser_data, lines 1062-1161
process_browser_data(app, data, t) ==
    LET counted == CountEvent(app)
    IN  IF ~data.is_object THEN [app |-> counted, obs |-> Raising(<< >>, "AttributeError")]
        ELSE LET handlers == Dispatched(data.type, DispatchChain)
             IN  IF handlers = << >>
                 THEN \* url[:80] of line 1152, after the ADMIN_USER_CHANGE block
                      IF data.type # "ADMIN_USER_CHANGE" /\ data.url = UrlNull
                      THEN [app |-> counted, obs |-> Raising(<< >>, "TypeError")]
                      ELSE [app |-> counted, obs |-> Quiet(<< >>)]
                 ELSE RunHandler(handlers[1], counted, data, t)

\* the handler a request reaches, "" when it reaches none
HandlerOf(data) ==
    IF ~data.is_object \/ Dispatched(data.type, DispatchChain) = << >> THEN ""
    ELSE Dispatched(data.type, DispatchChain)[1]

\* the next request is there and reaches one of the given handlers
Reaches(handlers) ==
    /\ served < Len(events)
    /\ HandlerOf(events[served + 1].data) \in handlers

\* TrayHandler.do_POST on /data, lines 437-460, for the next request: 200
\* with the stats, 500 when process_browser_data raised
do_POST ==
    /\ served < Len(events)
    /\ LET request == events[served + 1]
           t == now + request.dt
           r == process_browser_data(App, request.data, t)
       IN  /\ now' = t
           /\ stats' = r.app.stats
           /\ recent_detections' = r.app.recent_detections
           /\ duplicate_window' = r.app.duplicate_window
           /\ notifications' = r.app.notifications
           /\ last' = <<[data |-> request.data,
                         status |-> IF r.obs.raised = "none" THEN 200 ELSE 500,
                         handlers |-> r.obs.handlers, raised |-> r.obs.raised,
                         checks |-> r.obs.checks, shown |-> r.obs.shown]>>
    /\ served' = served + 1
    /\ UNCHANGED <<events, pvars, hvars, tvars, fvars>>

PostWithoutHandler ==
    /\ Reaches({""})
    /\ do_POST

PostPolicyLiveStatus ==
    /\ Reaches({"_handle_policy_live_status"})
    /\ do_POST

PostPolicyChange ==
    /\ Reaches({"_handle_policy_change_event"})
    /\ do_POST

PostStandardChange ==
    /\ Reaches({h[2] : h \in StandardHandlers})
    /\ do_POST

PostPasswordChange ==
    /\ Reaches({"_handle_password_change_event"})
    /\ do_POST

PostMlPrediction ==
    /\ Reaches({"_handle_ml_prediction_event"})
    /\ do_POST

----------------------------------------------------------------------------
(* The requests the tray app is given *)

MaxEvents == 2

Ev(type, eventType, url) ==
    [is_object |-> TRUE, type |-> type, eventType |-> eventType, url |-> url,
     isStreaming |-> FALSE, label |-> "", confidence |-> 0]

Ml(isStreaming, label, confidence) ==
    [is_object |-> TRUE, type |-> "ML_PREDICTION_RESULT", eventType |-> "", url |-> 1,
     isStreaming |-> isStreaming, label |-> label, confidence |-> confidence]

\* a body that is a JSON list
NotAnObject == [Ev("", "", 1) EXCEPT !.is_object = FALSE]

MlHigh == Ml(TRUE, "POLICY CREATE", 9)

CoreEvents ==
    {Ev("POLICY_CHANGE", "POLICY_CREATED", 1),
     Ev("INTERFACE_CHANGE", "INTERFACE_CREATED", 1),
     MlHigh,
     Ml(TRUE, "POLICY CREATE", 4),
     Ml(FALSE, "POLICY CREATE", 9),
     Ev("PASSWORD_CHANGE", "PASSWORD_FIELD_CHANGED", 1),
     Ev("POLICY_CHANGE", "POLICY_CREATED", UrlNull),
     NotAnObject}

\* every handler with each of its event types, and the requests that reach
\* no handler
OtherEvents ==
    {Ev(h[1], et, 1) : h \in StandardHandlers,
                       et \in {"INTERFACE_CREATING", "INTERFACE_EDITING", "unknown"}}
    \cup {Ev(h[1], h[4], 1) : h \in StandardHandlers}
    \cup {Ev(h[1], h[6], 1) : h \in StandardHandlers}
    \cup {Ev("POLICY_CHANGE", et, 1) :
             et \in {"POLICY_CREATING", "POLICY_EDITING", "POLICY_EDITED", "unknown"}}
    \cup {Ev("PASSWORD_CHANGE", et, u) :
             et \in {"PASSWORD_FIELD_MODIFIED", "PASSWORD_SAVE_CLICKED"}, u \in {1, UrlNull}}
    \cup {Ev(type, "", 1) :
             type \in {"ADMIN_USER_CHANGE", "POLICY_LIVE_STATUS", "API_CALL", "unknown"}}
    \cup {Ml(TRUE, "POLICY CREATE", c) : c \in {ConfidenceNull, 0, 5, 10}}
    \cup {Ml(TRUE, "ADDRESS EDIT", 9)}
    \cup {Ev(type, "INTERFACE_CREATED", UrlNull) :
             type \in {"INTERFACE_CHANGE", "ADMIN_USER_CHANGE", "API_CALL"}}

\* seconds between two requests: none; the ML window; the window of the
\* other detections; a day and five seconds
Gaps == {0, 10, 30, 86405}

Request(dt, data) == [dt |-> dt, data |-> data]

\* the sequences of at most n requests over Gaps and CoreEvents
RECURSIVE ScriptsUpTo(_)
ScriptsUpTo(n) ==
    IF n = 0 THEN {<< >>}
    ELSE LET shorter == ScriptsUpTo(n - 1)
         IN  shorter \cup {Append(sc, Request(dt, e)) :
                              sc \in {x \in shorter : Len(x) = n - 1},
                              dt \in Gaps, e \in CoreEvents}

\* each of OtherEvents once, and twice 20 seconds apart
OtherScripts ==
    {<<Request(0, e)>> : e \in OtherEvents}
    \cup {<<Request(0, e), Request(20, e)>> : e \in OtherEvents}

\* an ML prediction, max_recent_items interface events on as many pages
\* within the same second, the same prediction five seconds later, then the
\* first page again
Burst ==
    <<Request(0, MlHigh)>>
    \o [u \in 1..max_recent_items |->
            Request(0, Ev("INTERFACE_CHANGE", "INTERFACE_CREATED", u))]
    \o <<Request(5, MlHigh), Request(0, Ev("INTERFACE_CHANGE", "INTERFACE_CREATED", 1))>>

\* a policy saved, an ML prediction, and the same policy saved 20 seconds
\* after the first time
PolicyAroundMl ==
    <<Request(0, Ev("POLICY_CHANGE", "POLICY_CREATED", 1)), Request(0, MlHigh),
      Request(20, Ev("POLICY_CHANGE", "POLICY_CREATED", 1))>>

Scripts == ScriptsUpTo(MaxEvents) \cup OtherScripts \cup {Burst, PolicyAroundMl}

InitTray ==
    /\ events \in Scripts
    /\ served = 0
    /\ now = 0
    /\ stats = [total_events |-> 0, fortigate_events |-> 0, last_detection |-> -1]
    /\ recent_detections = << >>
    /\ duplicate_window = 30
    /\ notifications = << >>
    /\ last = << >>
    /\ PipelineIdle
    /\ HashIdle
    /\ TrainIdle
    /\ disk = << >>

NextTray ==
    \/ PostWithoutHandler
    \/ PostPolicyLiveStatus
    \/ PostPolicyChange
    \/ PostStandardChange
    \/ PostPasswordChange
    \/ PostMlPrediction

SpecTray == InitTray /\ [][NextTray]_vars

----------------------------------------------------------------------------
(* The claims about the tray app *)

\* the request just served reached the given handler, which made its
\* deduplication check
Checked(handlers) ==
    /\ last # << >>
    /\ last[1].handlers # << >>
    /\ last[1].handlers[1] \in handlers
    /\ last[1].checks # << >>

\* C25: _handle_policy_change_event shows no notification for a detection
\* that _is_duplicate_detection reports as a duplicate, and a POLICY_CREATED
\* or POLICY_EDITED event that is not a duplicate does get its notification.
C25_PolicyNotifiesNonDuplicates ==
    Checked({"_handle_policy_change_event"}) =>
        /\ last[1].checks[1].is_duplicate => last[1].shown = << >>
        /\ (/\ ~last[1].checks[1].is_duplicate
            /\ last[1].data.eventType \in {"POLICY_CREATED", "POLICY_EDITED"})
               => last[1].shown # << >>


\* C26: with calls at non-decreasing times, _is_duplicate_detection reports
\* a key as a duplicate only if the key was recorded less than
\* duplicate_window seconds before the call, however long ago an older
\* entry was recorded; every entry that old is pruned; and a call that
\* returns False records the key with the current time.
C26_DuplicateOnlyWithinWindow ==
    (last # << >> /\ last[1].checks # << >>) =>
        LET check == last[1].checks[1]
            Recorded(j) == recent_detections[j]
        IN  /\ check.is_duplicate =>
                   \E j \in 1..Len(recent_detections) :
                       /\ Recorded(j)[1] = check.key
                       /\ now - Recorded(j)[2] < check.window
            /\ \A j \in 1..Len(recent_detections) : now - Recorded(j)[2] < check.window
            /\ ~check.is_duplicate =>
                   Recorded(Len(recent_detections)) = <<check.key, now>>


\* the next request is an ML prediction result
MlNext ==
    /\ served < Len(events)
    /\ events[served + 1].data.is_object
    /\ events[served + 1].data.type = "ML_PREDICTION_RESULT"

\* the handling of the next request shows a notification
Notifies == notifications' # notifications

\* a post-save result neither notifies nor touches recent_detections
PostSaveSilent ==
    ~events[served + 1].data.isStreaming =>
        /\ ~Notifies
        /\ recent_detections' = recent_detections

C28_CapKeepsNewest ==
    /\ [](Len(recent_detections) <= max_recent_items)
    /\ [][(/\ served' = served + 1
           /\ last'[1].checks # << >>
           /\ ~last'[1].checks[1].is_duplicate)
          => LET check == last'[1].checks[1]
                 all == Append(Prune(recent_detections, check.window, now'),
                               <<check.key, now'>>)
                 dropped == IF Len(all) > max_recent_items
                            THEN Len(all) - max_recent_items ELSE 0
             IN  recent_detections' = SubSeq(all, dropped + 1, Len(all))]_vars

\* the list is full and the entry of the ML notification shown in this very
\* second is no longer in it
C28_Witness ==
    /\ Len(recent_detections) = max_recent_items
    /\ \E j \in 1..Len(notifications) :
           /\ notifications[j].title = "ML"
           /\ notifications[j].time = now
           /\ \A k \in 1..Len(recent_detections) : recent_detections[k][1][1] # "ML_STREAM"


\* C29: whatever was processed before, the duplicate window applied to a
\* detection of an event type other than ML_PREDICTION_RESULT is 30
\* seconds; handling an ML prediction does not change it.
C29_OtherWindowsStayThirty ==
    (/\ last # << >>
     /\ last[1].checks # << >>
     /\ last[1].data.type # "ML_PREDICTION_RESULT")
        => last[1].checks[1].window = 30


\* C30: stats.total_events is the number of calls of process_browser_data,
\* the calls whose handler raised included; a request is dispatched to at
\* most one handler; stats.fortigate_events never exceeds
\* stats.total_events.
C30_EveryCallCounted ==
    /\ stats.total_events = served
    /\ last # << >> => Len(last[1].handlers) <= 1
    /\ stats.fortigate_events <= stats.total_events

\* the second of two requests made its handler raise, and was answered 500
C30_Witness ==
    /\ served = 2
    /\ last[1].handlers # << >>
    /\ last[1].raised = "TypeError"
    /\ last[1].status = 500
    /\ stats.total_events = 2

====
